---- MODULE Spec2Model ----
(***************************************************************************)
(* UNS Estate OS: the canonical store (useDatabase), the spreadsheet       *)
(* import pipelines (useExcelImport) and the referential integrity checker *)
(* (validators.ts), as state machines.                                     *)
(*                                                                         *)
(* Strings are sequences of one-glyph strings, so that includes(), trim()  *)
(* and parseInt() are computed on their characters.  The module text is    *)
(* ASCII, so a Japanese glyph is written as a romanised token:             *)
(*   社 "sha"  員 "in"  物 "butsu"  件 "ken"  入 "nyu"  居 "kyo"           *)
(*   者 "mono" 一 "ichi" 覧 "ran"  会 "kai"  寮 "ryo"  情 "jo"  報 "ho"    *)
(* and a column label as the record field                                  *)
(*   ｱﾊﾟｰﾄ apt, 物件名 bukkenmei, 住所 jusho, 入居人数 nyukyoninzu,        *)
(*   家賃 yachin, USN家賃 usnYachin, 駐車場代 chushajodai,                 *)
(*   契約開始日 keiyakuKaishibi, 契約終了 keiyakuShuryo, カナ kana,        *)
(*   駐車場 chushajo, 入居 nyukyo, 社員No shainNo, ID ID, 氏名 shimei,     *)
(*   Name Name, 派遣先 hakensaki.                                          *)
(***************************************************************************)
EXTENDS Integers, Sequences, FiniteSets, TLC

VARIABLES
    db,          \* useDatabase: the committed store (React state)
    rendered,    \* useDatabase: the store captured by the callbacks of the last render
    now,         \* Date.now(), never decreasing
    prev,        \* history: the store before the last call
    call,        \* history: the last call, its arguments and its return value
    wb,          \* useExcelImport: window.XLSX and the workbook of the file
    pc,          \* useExcelImport: position of processFile
    idx,         \* useExcelImport: forEach index of the next row
    properties,  \* processRentImport: Property candidates
    tenants,     \* processRentImport: Tenant candidates
    employees,   \* processEmployeeImport: Employee candidates
    errors,      \* the pipeline's row errors
    result       \* the ImportResult processFile resolves to

storeVars == <<db, rendered, prev, call>>
importVars == <<wb, pc, idx, properties, tenants, employees, errors, result>>
vars == <<db, rendered, now, prev, call, wb, pc, idx, properties, tenants,
          employees, errors, result>>

(***************************************************************************)
(* Strings                                                                 *)
(***************************************************************************)
Range(s) == {s[i] : i \in DOMAIN s}

SeqsUpTo(S, n) == UNION {[1..k -> S] : k \in 0..n}

Whitespace == {" "}

Digits == <<"0", "1", "2", "3", "4", "5", "6", "7", "8", "9">>

\* String.prototype.includes
Includes(s, m) ==
    \E i \in 1..(Len(s) - Len(m) + 1) : SubSeq(s, i, i + Len(m) - 1) = m

RECURSIVE TrimStart(_)
TrimStart(s) ==
    IF s # <<>> /\ Head(s) \in Whitespace THEN TrimStart(Tail(s)) ELSE s

RECURSIVE TrimEnd(_)
TrimEnd(s) ==
    IF s # <<>> /\ s[Len(s)] \in Whitespace
    THEN TrimEnd(SubSeq(s, 1, Len(s) - 1))
    ELSE s

\* String.prototype.trim
Trim(s) == TrimEnd(TrimStart(s))

(***************************************************************************)
(* Entities (types/database)                                               *)
(***************************************************************************)
Str_1K == <<"1", "K">>

NoMessage == [tpl |-> "", name |-> <<>>, a |-> 0, b |-> 0]

HasProperty(props, id) == \E i \in DOMAIN props : props[i].id = id

\* mutant: tenants of every status are counted
ActiveTenantCount_AnyStatus(d, id) ==
    Len(SelectSeq(d.tenants, LAMBDA t : t.property_id = id))

\* Array.prototype.filter(...).length of validateDataIntegrity
ActiveTenantCount(d, id) ==
    Len(SelectSeq(d.tenants,
                  LAMBDA t : t.property_id = id /\ t.status = "active"))

(***************************************************************************)
(* validateDataIntegrity (validators.ts)                                   *)
(***************************************************************************)
\* mutant: the check stops at the first tenant it finds dangling
FkErrors_FirstOnly(d) ==
    LET off == SelectSeq(d.tenants,
                         LAMBDA t : ~HasProperty(d.properties, t.property_id))
    IN  [i \in 1..(IF Len(off) > 0 THEN 1 ELSE 0) |->
            [type |-> "FK_ERROR",
             message |-> [tpl |-> "Inquilino asignado a propiedad inexistente",
                          name |-> off[i].name,
                          a |-> off[i].property_id,
                          b |-> 0]]]

FkErrors(d) ==
    LET off == SelectSeq(d.tenants,
                         LAMBDA t : ~HasProperty(d.properties, t.property_id))
    IN  [i \in 1..Len(off) |->
            [type |-> "FK_ERROR",
             message |-> [tpl |-> "Inquilino asignado a propiedad inexistente",
                          name |-> off[i].name,
                          a |-> off[i].property_id,
                          b |-> 0]]]

CapacityErrors(d) ==
    LET off == SelectSeq(d.properties,
                         LAMBDA p : ActiveTenantCount(d, p.id) > p.capacity)
    IN  [i \in 1..Len(off) |->
            [type |-> "CAPACITY_ERROR",
             message |-> [tpl |-> "Propiedad excede capacidad",
                          name |-> off[i].name,
                          a |-> ActiveTenantCount(d, off[i].id),
                          b |-> off[i].capacity]]]

ValidateDataIntegrity(d) ==
    LET errs == FkErrors(d) \o CapacityErrors(d)
    IN  [valid |-> Len(errs) = 0, errors |-> errs]

(***************************************************************************)
(* Zod schemas of the store's entities (validators.ts)                     *)
(***************************************************************************)
\* an optional field that is not set (undefined)
Absent == <<"#undefined">>

IsDigit(c) == \E i \in 1..10 : Digits[i] = c

\* z.string().datetime(): YYYY-MM-DDTHH:MM:SSZ
IsDatetime(s) ==
    /\ s # Absent
    /\ Len(s) = 20
    /\ \A i \in {1, 2, 3, 4, 6, 7, 9, 10, 12, 13, 15, 16, 18, 19} : IsDigit(s[i])
    /\ s[5] = "-" /\ s[8] = "-" /\ s[11] = "T"
    /\ s[14] = ":" /\ s[17] = ":" /\ s[20] = "Z"

NameMin == 2
NameMax == 100
AddressMin == 5
CapacityMin == 1
CapacityMax == 20
EmployeeIdMax == 50

Issue(ok, field, message) ==
    IF ok THEN <<>> ELSE <<[field |-> field, message |-> message]>>

\* PropertySchema.parse: the issues, in the order of the schema's keys
PropertyIssues(p) ==
       Issue(Len(p.name) >= NameMin, "name", "Nombre debe tener al menos 2 caracteres")
    \o Issue(Len(p.name) <= NameMax, "name", "too_big")
    \o Issue(Len(p.address) >= AddressMin, "address", "Direccion debe tener al menos 5 caracteres")
    \o Issue(p.capacity >= CapacityMin, "capacity", "Capacidad minima: 1")
    \o Issue(p.capacity <= CapacityMax, "capacity", "too_big")
    \o Issue(p.rent_cost >= 0, "rent_cost", "Costo no puede ser negativo")
    \o Issue(p.rent_price_uns >= 0, "rent_price_uns", "Precio UNS no puede ser negativo")
    \o Issue(p.parking_cost >= 0, "parking_cost", "Costo parking no puede ser negativo")
    \o Issue(p.contract_start = Absent \/ IsDatetime(p.contract_start),
             "contract_start", "invalid_string")
    \o Issue(p.contract_end = Absent \/ IsDatetime(p.contract_end),
             "contract_end", "invalid_string")

validateProperty(p) ==
    [success |-> PropertyIssues(p) = <<>>, errors |-> PropertyIssues(p)]

\* TenantSchema.parse: the issues, in the order of the schema's keys
TenantIssues(t) ==
       Issue(Len(t.employee_id) >= 1, "employee_id", "ID empleado requerido")
    \o Issue(Len(t.employee_id) <= EmployeeIdMax, "employee_id", "too_big")
    \o Issue(Len(t.name) >= 1, "name", "Nombre requerido")
    \o Issue(Len(t.name_kana) >= 1, "name_kana", "Nombre en Kana requerido")
    \o Issue(t.property_id > 0, "property_id", "ID propiedad invalido")
    \o Issue(t.rent_contribution >= 0, "rent_contribution", "Renta no puede ser negativa")
    \o Issue(t.parking_fee >= 0, "parking_fee", "Parking no puede ser negativo")
    \o Issue(IsDatetime(t.entry_date), "entry_date", "invalid_string")

validateTenant(t) ==
    [success |-> TenantIssues(t) = <<>>, errors |-> TenantIssues(t)]

(***************************************************************************)
(* useDatabase: the store and its mutators                                 *)
(***************************************************************************)
DEFAULT_CONFIG == [companyName |-> "UNS-KIKAKU", closingDay |-> 0]

INITIAL_DB ==
    [properties |-> <<>>, tenants |-> <<>>, employees |-> <<>>,
     config |-> DEFAULT_CONFIG, version |-> "7.0", last_sync |-> 0]

Ok == [success |-> TRUE, error |-> "", errors |-> <<>>, count |-> 0]
Fail(error) == [success |-> FALSE, error |-> error, errors |-> <<>>, count |-> 0]
Invalid(issues) == [success |-> FALSE, error |-> "", errors |-> issues, count |-> 0]

NoCall == [op |-> "", id |-> 0, arg |-> <<>>, ret |-> Ok]

WithId(r, id) == [f \in DOMAIN r \cup {"id"} |-> IF f = "id" THEN id ELSE r[f]]

\* setDb(prev => ...) of addProperty
addProperty(d, property, t) ==
    [d EXCEPT !.properties = Append(@, WithId(property, t))]

\* mutant: the tenants of the property are kept
deleteProperty_NoCascade(d, id) ==
    [d EXCEPT !.properties = SelectSeq(@, LAMBDA p : p.id # id)]

\* setDb(prev => ...) of deleteProperty
deleteProperty(d, id) ==
    [d EXCEPT !.properties = SelectSeq(@, LAMBDA p : p.id # id),
              !.tenants = SelectSeq(@, LAMBDA t : t.property_id # id)]

\* setDb(prev => ...) of addTenant
addTenant(d, tenant, t) ==
    [d EXCEPT !.tenants = Append(@, WithId(tenant, t))]

\* setDb(prev => ...) of deleteTenant
deleteTenant(d, id) ==
    [d EXCEPT !.tenants = SelectSeq(@, LAMBDA t : t.id # id)]

\* mutant: an incoming employee replaces the stored one of the same id
addEmployees_Upsert(d, emps) ==
    LET incoming(id) == {j \in DOMAIN emps : emps[j].id = id}
    IN  [d EXCEPT !.employees =
            [i \in DOMAIN @ |->
                IF incoming(@[i].id) # {}
                THEN emps[CHOOSE j \in incoming(@[i].id) : TRUE]
                ELSE @[i]]
            \o SelectSeq(emps, LAMBDA emp : ~\E i \in DOMAIN d.employees :
                                                  d.employees[i].id = emp.id)]

\* setDb(prev => ...) of addEmployees
addEmployees(d, emps) ==
    [d EXCEPT !.employees =
        @ \o SelectSeq(emps, LAMBDA emp : ~\E i \in DOMAIN d.employees :
                                              d.employees[i].id = emp.id)]

(***************************************************************************)
(* Bounds and input domains of the store specifications                    *)
(***************************************************************************)
MaxClock == 2
MaxProps == 2
MaxTenants == 2
MaxEmps == 3
MaxBatch == 2

Str_Sa == <<"S", "a">>
Str_Tokyo == <<"T", "o", "k", "y", "o">>
Str_Tanaka == <<"T", "a">>
Str_Datetime ==
    <<"2", "0", "2", "6", "-", "0", "1", "-", "0", "1", "T",
      "0", "0", ":", "0", "0", ":", "0", "0", "Z">>

\* the arguments the host passes to addProperty
PropertyInputs ==
    {[name |-> n, address |-> Str_Tokyo, address_auto |-> Str_Tokyo,
      capacity |-> c, rent_cost |-> 0, rent_price_uns |-> 100,
      parking_cost |-> 0, type |-> Str_1K,
      contract_start |-> Absent, contract_end |-> Absent] :
        n \in {Str_Sa, <<"X">>}, c \in {1, 2}}

\* the arguments the host passes to addTenant
TenantInputs ==
    {[employee_id |-> e, name |-> Str_Tanaka, name_kana |-> Str_Tanaka,
      property_id |-> pid, rent_contribution |-> 0, parking_fee |-> 0,
      entry_date |-> Str_Datetime, status |-> st] :
        e \in {<<"E", "1">>, <<"E", "2">>}, pid \in 1..MaxClock,
        st \in {"active"}}

\* the Employee candidates an import hands to addEmployees
EmployeeInputs ==
    {[id |-> i, name |-> n, name_kana |-> <<>>, company |-> <<>>,
      full_data |-> <<>>] :
        i \in {<<"E", "1">>, <<"E", "2">>}, n \in {<<"A">>, <<"B">>}}

\* a store persisted by an earlier session (localStorage)
SavedDb ==
    [INITIAL_DB EXCEPT
        !.properties = <<WithId(CHOOSE p \in PropertyInputs :
                                    p.name = Str_Sa /\ p.capacity = 1, 1)>>,
        !.tenants = <<WithId(CHOOSE t \in TenantInputs :
                                 /\ t.employee_id = <<"E", "1">>
                                 /\ t.property_id = 1
                                 /\ t.status = "active", 1)>>]

ImportIdle ==
    /\ wb = <<>>
    /\ pc = "idle"
    /\ idx = 0
    /\ properties = <<>>
    /\ tenants = <<>>
    /\ employees = <<>>
    /\ errors = <<>>
    /\ result = <<>>

(***************************************************************************)
(* useDatabase: one action per callback                                    *)
(***************************************************************************)
\* Date.now() advances
Tick ==
    /\ now < MaxClock
    /\ now' = now + 1
    /\ UNCHANGED <<storeVars, importVars>>

\* React re-renders the hook after the event that called a mutator: the
\* callbacks of the next event capture the committed store
Rerender == rendered' = db'

Returned(op, id, arg, ret) ==
    /\ prev' = db
    /\ call' = [op |-> op, id |-> id, arg |-> arg, ret |-> ret]
    /\ UNCHANGED <<now, importVars>>

AddProperty(property) ==
    LET validation == validateProperty(WithId(property, now))
    IN  IF ~validation.success
        THEN /\ db' = db
             /\ Returned("addProperty", 0, property, Invalid(validation.errors))
        ELSE /\ Len(db.properties) < MaxProps
             /\ db' = addProperty(db, property, now)
             /\ Returned("addProperty", 0, property, Ok)

DeleteProperty(id) ==
    /\ db' = deleteProperty(db, id)
    /\ Returned("deleteProperty", id, <<>>, Ok)

\* mutant: the employee_id of an active tenant may be assigned again
AddTenant_NoDuplicateGuard(tenant) ==
    LET validation == validateTenant(WithId(tenant, now))
    IN  IF ~HasProperty(rendered.properties, tenant.property_id)
        THEN /\ db' = db
             /\ Returned("addTenant", 0, tenant, Fail("Propiedad no existe"))
        ELSE IF ~validation.success
        THEN /\ db' = db
             /\ Returned("addTenant", 0, tenant, Invalid(validation.errors))
        ELSE /\ Len(db.tenants) < MaxTenants
             /\ db' = addTenant(db, tenant, now)
             /\ Returned("addTenant", 0, tenant, Ok)

AddTenant(tenant) ==
    LET validation == validateTenant(WithId(tenant, now))
    IN  IF ~HasProperty(rendered.properties, tenant.property_id)
        THEN /\ db' = db
             /\ Returned("addTenant", 0, tenant, Fail("Propiedad no existe"))
        ELSE IF \E i \in DOMAIN rendered.tenants :
                    /\ rendered.tenants[i].employee_id = tenant.employee_id
                    /\ rendered.tenants[i].status = "active"
        THEN /\ db' = db
             /\ Returned("addTenant", 0, tenant, Fail("ID empleado ya asignado"))
        ELSE IF ~validation.success
        THEN /\ db' = db
             /\ Returned("addTenant", 0, tenant, Invalid(validation.errors))
        ELSE /\ Len(db.tenants) < MaxTenants
             /\ db' = addTenant(db, tenant, now)
             /\ Returned("addTenant", 0, tenant, Ok)

DeleteTenant(id) ==
    /\ db' = deleteTenant(db, id)
    /\ Returned("deleteTenant", id, <<>>, Ok)

AddEmployees(emps) ==
    /\ Len(db.employees) + Len(emps) <= MaxEmps
    /\ db' = addEmployees(db, emps)
    /\ Returned("addEmployees", 0, emps, [Ok EXCEPT !.count = Len(emps)])

(***************************************************************************)
(* Specification of the property and tenant mutators                       *)
(***************************************************************************)
Init ==
    /\ db = INITIAL_DB
    /\ rendered = INITIAL_DB
    /\ now = 1
    /\ prev = INITIAL_DB
    /\ call = NoCall
    /\ ImportIdle

Next ==
    \/ Tick
    \/ \E property \in PropertyInputs : AddProperty(property) /\ Rerender
    \/ \E id \in 1..MaxClock : DeleteProperty(id) /\ Rerender
    \/ \E tenant \in TenantInputs : AddTenant(tenant) /\ Rerender
    \/ \E id \in 1..MaxClock : DeleteTenant(id) /\ Rerender

Spec == Init /\ [][Next]_vars

(***************************************************************************)
(* Specification of the employee merge                                     *)
(***************************************************************************)
InitEmployees ==
    /\ db \in {INITIAL_DB, SavedDb}
    /\ rendered = db
    /\ now = 1
    /\ prev = db
    /\ call = NoCall
    /\ ImportIdle

NextEmployees ==
    \E emps \in SeqsUpTo(EmployeeInputs, MaxBatch) : AddEmployees(emps) /\ Rerender

SpecEmployees == InitEmployees /\ [][NextEmployees]_vars

(***************************************************************************)
(* Specification of the integrity checker run on a store                   *)
(***************************************************************************)
\* the entity sets handed to validateDataIntegrity
SetProperties ==
    {[name |-> Str_Sa, address |-> Str_Tokyo, address_auto |-> Str_Tokyo,
      capacity |-> c, rent_cost |-> 0, rent_price_uns |-> 100,
      parking_cost |-> 0, type |-> Str_1K,
      contract_start |-> Absent, contract_end |-> Absent, id |-> i] :
        c \in {1, 2}, i \in {1, 2}}

SetTenants ==
    {[employee_id |-> <<"E", "1">>, name |-> n, name_kana |-> n,
      property_id |-> pid, rent_contribution |-> 0, parking_fee |-> 0,
      entry_date |-> Str_Datetime, status |-> st, id |-> 1] :
        n \in {<<"T", "a">>, <<"T", "b">>}, pid \in {1, 2, 3},
        st \in {"active", "inactive"}}

InitIntegrity ==
    /\ \E ps \in SeqsUpTo(SetProperties, MaxProps) :
       \E ts \in SeqsUpTo(SetTenants, MaxTenants) :
            db = [INITIAL_DB EXCEPT !.properties = ps, !.tenants = ts]
    /\ rendered = db
    /\ now = 1
    /\ prev = db
    /\ call = NoCall
    /\ ImportIdle

ValidateStore ==
    /\ db' = db
    /\ Returned("validateDataIntegrity", 0, <<>>, ValidateDataIntegrity(db))

NextIntegrity == ValidateStore /\ Rerender

SpecIntegrity == InitIntegrity /\ [][NextIntegrity]_vars

(***************************************************************************)
(* Spreadsheet cells and the JavaScript conversions applied to them        *)
(***************************************************************************)
\* a cell of sheet_to_json: a column the sheet does not have (undefined), a
\* string (defval '' for an empty cell) or a number
Undef == [t |-> "undef", s |-> <<>>, n |-> 0]
S(str) == [t |-> "str", s |-> str, n |-> 0]
N(num) == [t |-> "num", s |-> <<>>, n |-> num]

\* ToBoolean
Truthy(c) ==
    CASE c.t = "undef" -> FALSE
      [] c.t = "str" -> c.s # <<>>
      [] c.t = "num" -> c.n # 0

\* a || b
Or(a, b) == IF Truthy(a) THEN a ELSE b

RECURSIVE NatToStr(_)
NatToStr(n) ==
    IF n < 10 THEN <<Digits[n + 1]>>
    ELSE NatToStr(n \div 10) \o <<Digits[(n % 10) + 1]>>

Str_undefined == <<"u", "n", "d", "e", "f", "i", "n", "e", "d">>

\* String(value)
String(c) ==
    CASE c.t = "undef" -> Str_undefined
      [] c.t = "str" -> c.s
      [] c.t = "num" -> IF c.n < 0 THEN <<"-">> \o NatToStr(-c.n)
                        ELSE NatToStr(c.n)

DigitValue(ch) == (CHOOSE i \in 1..10 : Digits[i] = ch) - 1

\* the value of the longest prefix of decimal digits of s, read after acc
RECURSIVE DigitsValue(_, _)
DigitsValue(s, acc) ==
    IF s # <<>> /\ IsDigit(Head(s))
    THEN DigitsValue(Tail(s), acc * 10 + DigitValue(Head(s)))
    ELSE acc

\* parseInt(string) in radix 10: leading whitespace, a sign, then digits;
\* NaN when no digit follows
ParseInt(str) ==
    LET t == TrimStart(str)
        signed == t # <<>> /\ Head(t) \in {"-", "+"}
        body == IF signed THEN Tail(t) ELSE t
    IN  IF body = <<>> \/ ~IsDigit(Head(body))
        THEN [nan |-> TRUE, v |-> 0]
        ELSE [nan |-> FALSE,
              v |-> IF signed /\ Head(t) = "-"
                    THEN -DigitsValue(body, 0)
                    ELSE DigitsValue(body, 0)]

\* parseInt(String(cell || dflt)) || dflt
CellInt(cell, dflt) ==
    LET r == ParseInt(String(Or(cell, N(dflt))))
    IN  IF r.nan \/ r.v = 0 THEN dflt ELSE r.v

\* String(cell || '').trim()
CellText(cell) == Trim(String(Or(cell, S(<<>>))))

(***************************************************************************)
(* Zod schemas of the spreadsheet rows (validators.ts)                     *)
(***************************************************************************)
zString(c) == c.t = "str"
zStringOptional(c) == c.t \in {"str", "undef"}

validateExcelPropertyRow(row) ==
    /\ zString(row.apt)
    /\ zStringOptional(row.jusho)
    /\ zStringOptional(row.keiyakuKaishibi)
    /\ zStringOptional(row.keiyakuShuryo)

validateExcelTenantRow(row) ==
    /\ zString(row.apt)
    /\ zString(row.kana)
    /\ zStringOptional(row.nyukyo)

validateExcelEmployeeRow(row) ==
    /\ zString(row.shimei)
    /\ zString(row.kana)
    /\ zStringOptional(row.hakensaki)

(***************************************************************************)
(* useExcelImport: the candidates and row errors built from one row        *)
(***************************************************************************)
RowError(index, field, tpl, name) ==
    [row |-> index + 1, field |-> field,
     message |-> [tpl |-> tpl, name |-> name, a |-> 0, b |-> 0]]

\* new Date().toISOString().split('T')[0]
Today == <<"2", "0", "2", "6", "-", "0", "1", "-", "0", "1">>

PropertyName(row) == Trim(String(Or(row.apt, row.bukkenmei)))

PropertyCandidate(row, index, t) ==
    [id |-> t + index,
     name |-> PropertyName(row),
     address |-> CellText(row.jusho),
     address_auto |-> CellText(row.jusho),
     capacity |-> CellInt(row.nyukyoninzu, 2),
     rent_cost |-> CellInt(row.yachin, 0),
     rent_price_uns |-> CellInt(row.usnYachin, 0),
     parking_cost |-> CellInt(row.chushajodai, 0),
     type |-> Str_1K,
     contract_start |-> Or(row.keiyakuKaishibi, S(<<>>)).s,
     contract_end |-> Or(row.keiyakuShuryo, S(<<>>)).s]

\* properties.find(p => p.name === apt): the index of the first match, or 0
FindByName(props, apt) ==
    IF \E i \in DOMAIN props : props[i].name = apt
    THEN CHOOSE i \in DOMAIN props :
            /\ props[i].name = apt
            /\ \A j \in 1..(i - 1) : props[j].name # apt
    ELSE 0

TenantCandidate(row, index, t, prop) ==
    [id |-> t + index,
     employee_id |-> <<"I", "M", "P", "-">> \o NatToStr(index),
     name |-> Trim(String(row.kana)),
     name_kana |-> Trim(String(row.kana)),
     property_id |-> prop.id,
     rent_contribution |-> CellInt(row.yachin, 0),
     parking_fee |-> CellInt(row.chushajo, 0),
     entry_date |-> Or(row.nyukyo, S(Today)).s,
     status |-> "active"]

EmployeeId(row) == Trim(String(Or(row.shainNo, row.ID)))
EmployeeName(row) == Trim(String(Or(row.shimei, row.Name)))

EmployeeCandidate(row) ==
    [id |-> EmployeeId(row),
     name |-> EmployeeName(row),
     name_kana |-> CellText(row.kana),
     company |-> CellText(row.hakensaki),
     full_data |-> row]

(***************************************************************************)
(* useExcelImport: classification and the results                          *)
(***************************************************************************)
EmployeeMarkers ==
    {<<"G", "e", "n", "z", "a", "i">>, <<"U", "k", "e", "o", "i">>,
     <<"sha", "in">>}
PropertyMarkers == {<<"kai", "sha", "ryo", "jo", "ho">>, <<"butsu", "ken">>}
TenantMarkers == {<<"nyu", "kyo", "mono", "ichi", "ran">>, <<"nyu", "kyo">>}

\* sheetNames.some(n => n.includes(m1) || n.includes(m2) ...)
SomeIncludes(sheetNames, markers) ==
    \E i \in DOMAIN sheetNames : \E m \in markers : Includes(sheetNames[i], m)

\* sheetNames.find(...): the index of the first sheet, or 0
FindSheet(sheetNames, markers) ==
    IF SomeIncludes(sheetNames, markers)
    THEN CHOOSE i \in DOMAIN sheetNames :
            /\ \E m \in markers : Includes(sheetNames[i], m)
            /\ \A j \in 1..(i - 1) :
                   ~\E m \in markers : Includes(sheetNames[j], m)
    ELSE 0

\* XLSX.utils.sheet_to_json(workbook.Sheets[sheet], { defval: '' })
SheetData(w, markers) ==
    IF FindSheet(w.SheetNames, markers) = 0 THEN <<>>
    ELSE w.Sheets[FindSheet(w.SheetNames, markers)]

\* mutant: the rent markers are tested before the roster markers
Classify_RentFirst(sheetNames) ==
    IF \/ SomeIncludes(sheetNames, PropertyMarkers)
       \/ SomeIncludes(sheetNames, TenantMarkers)
    THEN "rent_management"
    ELSE IF SomeIncludes(sheetNames, EmployeeMarkers) THEN "employees"
    ELSE "unrecognized"

\* mutant: a workbook without roster markers is always taken as rent management
Classify_RentDefault(sheetNames) ==
    IF SomeIncludes(sheetNames, EmployeeMarkers) THEN "employees"
    ELSE "rent_management"

\* the if / else if / else of processFile
Classify(sheetNames) ==
    IF SomeIncludes(sheetNames, EmployeeMarkers) THEN "employees"
    ELSE IF \/ SomeIncludes(sheetNames, PropertyMarkers)
            \/ SomeIncludes(sheetNames, TenantMarkers)
    THEN "rent_management"
    ELSE "unrecognized"

NoData == [properties |-> <<>>, tenants |-> <<>>, employees |-> <<>>]

\* an ImportResult without type and data, returned (the promise resolves)
FailedResult(summary) ==
    [rejected |-> FALSE, success |-> FALSE, type |-> "", hasData |-> FALSE,
     data |-> NoData, errors |-> <<>>,
     summary |-> [tpl |-> summary, counts |-> <<>>]]

UnrecognizedResult == FailedResult("No se detecto formato valido de importacion")

\* mutant: the catch block rethrows, the promise rejects
CaughtResult_Rethrow(message) == [FailedResult(message) EXCEPT !.rejected = TRUE]

\* the catch block of processFile
CaughtResult(message) == FailedResult(message)

EmployeeResult(data, emps, errs) ==
    [rejected |-> FALSE, success |-> Len(errs) = 0, type |-> "employees",
     hasData |-> TRUE, data |-> [NoData EXCEPT !.employees = emps],
     errors |-> errs,
     summary |-> [tpl |-> "Importacion de Empleados",
                  counts |-> <<Len(data), Len(emps), Len(errs)>>]]

\* mutant: the integrity check does not count towards success
RentResult_IgnoreIntegrity(props, tens, errs) ==
    LET integrityCheck ==
            ValidateDataIntegrity([properties |-> props, tenants |-> tens,
                                   employees |-> <<>>, config |-> <<>>])
    IN  [rejected |-> FALSE, success |-> Len(errs) = 0,
         type |-> "rent_management", hasData |-> TRUE,
         data |-> [NoData EXCEPT !.properties = props, !.tenants = tens],
         errors |-> errs \o
            [i \in 1..Len(integrityCheck.errors) |->
                [row |-> i - 1, field |-> integrityCheck.errors[i].type,
                 message |-> integrityCheck.errors[i].message]],
         summary |-> [tpl |-> "Importacion de Gestion de Rentas",
                      counts |-> <<Len(props), Len(tens), Len(errs),
                                   Len(integrityCheck.errors)>>]]

\* the integrity check and the return of processRentImport
RentResult(props, tens, errs) ==
    LET integrityCheck ==
            ValidateDataIntegrity([properties |-> props, tenants |-> tens,
                                   employees |-> <<>>, config |-> <<>>])
    IN  [rejected |-> FALSE,
         success |-> Len(errs) = 0 /\ integrityCheck.valid,
         type |-> "rent_management", hasData |-> TRUE,
         data |-> [NoData EXCEPT !.properties = props, !.tenants = tens],
         errors |-> errs \o
            [i \in 1..Len(integrityCheck.errors) |->
                [row |-> i - 1, field |-> integrityCheck.errors[i].type,
                 message |-> integrityCheck.errors[i].message]],
         summary |-> [tpl |-> "Importacion de Gestion de Rentas",
                      counts |-> <<Len(props), Len(tens), Len(errs),
                                   Len(integrityCheck.errors)>>]]

(***************************************************************************)
(* useExcelImport: what the forEach callback does with one row             *)
(***************************************************************************)
Rejected(error) == [errors |-> <<error>>, candidates |-> <<>>]
Accepted(candidate) == [errors |-> <<>>, candidates |-> <<candidate>>]

PropertyRowOutcome(row, index, t) ==
    IF ~validateExcelPropertyRow(row)
    THEN Rejected(RowError(index, "propiedad", "Campos requeridos faltantes", <<>>))
    ELSE IF PropertyName(row) = <<>>
    THEN Rejected(RowError(index, "nombre", "Nombre de propiedad requerido", <<>>))
    ELSE Accepted(PropertyCandidate(row, index, t))

\* mutant: a tenant row without a matching property becomes an orphan tenant
TenantRowOutcome_Orphan(row, index, t, props) ==
    IF ~validateExcelTenantRow(row)
    THEN Rejected(RowError(index, "inquilino", "Campos requeridos faltantes", <<>>))
    ELSE IF Trim(String(row.apt)) = <<>> \/ Trim(String(row.kana)) = <<>>
    THEN Rejected(RowError(index, "apt/kana", "Apartamento y Kana requeridos", <<>>))
    ELSE Accepted(TenantCandidate(row, index, t,
            IF FindByName(props, Trim(String(row.apt))) = 0 THEN [id |-> 0]
            ELSE props[FindByName(props, Trim(String(row.apt)))]))

TenantRowOutcome(row, index, t, props) ==
    IF ~validateExcelTenantRow(row)
    THEN Rejected(RowError(index, "inquilino", "Campos requeridos faltantes", <<>>))
    ELSE IF Trim(String(row.apt)) = <<>> \/ Trim(String(row.kana)) = <<>>
    THEN Rejected(RowError(index, "apt/kana", "Apartamento y Kana requeridos", <<>>))
    ELSE IF FindByName(props, Trim(String(row.apt))) = 0
    THEN Rejected(RowError(index, "apartamento", "Propiedad no encontrada",
                           Trim(String(row.apt))))
    ELSE Accepted(TenantCandidate(row, index, t,
                      props[FindByName(props, Trim(String(row.apt)))]))

EmployeeRowOutcome(row, index) ==
    IF ~validateExcelEmployeeRow(row)
    THEN Rejected(RowError(index, "multiples", "Datos incompletos", <<>>))
    ELSE IF EmployeeId(row) = <<>> \/ EmployeeName(row) = <<>>
    THEN Rejected(RowError(index, "ID/Nombre", "ID y Nombre requeridos", <<>>))
    ELSE Accepted(EmployeeCandidate(row))

(***************************************************************************)
(* useExcelImport: processFile, one action per step                        *)
(***************************************************************************)
Finished(res) ==
    /\ pc' = "done"
    /\ result' = res
    /\ UNCHANGED <<wb, idx, properties, tenants, employees, errors>>

\* processFile up to the first row callback
ProcessFile ==
    /\ pc = "start"
    /\ UNCHANGED <<now, storeVars>>
    /\ IF ~wb.XLSX
       THEN Finished(CaughtResult("Error: Libreria XLSX no cargada"))
       ELSE CASE Classify(wb.SheetNames) = "employees" ->
                    /\ pc' = "employees"
                    /\ UNCHANGED <<wb, idx, properties, tenants, employees,
                                   errors, result>>
              [] Classify(wb.SheetNames) = "rent_management" ->
                    /\ pc' = "properties"
                    /\ UNCHANGED <<wb, idx, properties, tenants, employees,
                                   errors, result>>
              [] OTHER -> Finished(UnrecognizedResult)

\* data.forEach callback of processEmployeeImport
EmployeeRow ==
    /\ pc = "employees"
    /\ idx < Len(SheetData(wb, EmployeeMarkers))
    /\ LET out == EmployeeRowOutcome(SheetData(wb, EmployeeMarkers)[idx + 1], idx)
       IN  /\ errors' = errors \o out.errors
           /\ employees' = employees \o out.candidates
    /\ idx' = idx + 1
    /\ UNCHANGED <<now, storeVars, wb, pc, properties, tenants, result>>

\* the return of processEmployeeImport
EmployeesReturn ==
    /\ pc = "employees"
    /\ idx = Len(SheetData(wb, EmployeeMarkers))
    /\ Finished(EmployeeResult(SheetData(wb, EmployeeMarkers), employees, errors))
    /\ UNCHANGED <<now, storeVars>>

\* mutant: the first property row that fails ends the loop
PropertyRow_ShortCircuit ==
    /\ pc = "properties"
    /\ idx < Len(SheetData(wb, PropertyMarkers))
    /\ LET out == PropertyRowOutcome(SheetData(wb, PropertyMarkers)[idx + 1],
                                     idx, now)
       IN  /\ errors' = errors \o out.errors
           /\ properties' = properties \o out.candidates
           /\ idx' = IF out.errors # <<>>
                     THEN Len(SheetData(wb, PropertyMarkers))
                     ELSE idx + 1
    /\ UNCHANGED <<now, storeVars, wb, pc, tenants, employees, result>>

\* propData.forEach callback of processRentImport
PropertyRow ==
    /\ pc = "properties"
    /\ idx < Len(SheetData(wb, PropertyMarkers))
    /\ LET out == PropertyRowOutcome(SheetData(wb, PropertyMarkers)[idx + 1],
                                     idx, now)
       IN  /\ errors' = errors \o out.errors
           /\ properties' = properties \o out.candidates
    /\ idx' = idx + 1
    /\ UNCHANGED <<now, storeVars, wb, pc, tenants, employees, result>>

\* the property sheet is absent or exhausted: on to the tenant sheet
PropertiesEnd ==
    /\ pc = "properties"
    /\ idx = Len(SheetData(wb, PropertyMarkers))
    /\ pc' = "tenants"
    /\ idx' = 0
    /\ UNCHANGED <<now, storeVars, wb, properties, tenants, employees, errors,
                   result>>

\* tenantData.forEach callback of processRentImport
TenantRow ==
    /\ pc = "tenants"
    /\ idx < Len(SheetData(wb, TenantMarkers))
    /\ LET out == TenantRowOutcome(SheetData(wb, TenantMarkers)[idx + 1],
                                   idx, now, properties)
       IN  /\ errors' = errors \o out.errors
           /\ tenants' = tenants \o out.candidates
    /\ idx' = idx + 1
    /\ UNCHANGED <<now, storeVars, wb, pc, properties, employees, result>>

\* the tenant sheet is absent or exhausted: integrity check and return
RentReturn ==
    /\ pc = "tenants"
    /\ idx = Len(SheetData(wb, TenantMarkers))
    /\ Finished(RentResult(properties, tenants, errors))
    /\ UNCHANGED <<now, storeVars>>

\* Date.now() advances between two row callbacks of processRentImport, the
\* only readers of the clock
TickBetweenRows == Tick /\ pc \in {"properties", "tenants"}

NextImport ==
    \/ TickBetweenRows
    \/ ProcessFile
    \/ EmployeeRow
    \/ EmployeesReturn
    \/ PropertyRow
    \/ PropertiesEnd
    \/ TenantRow
    \/ RentReturn

(***************************************************************************)
(* Specifications of the import: the workbooks processFile is given        *)
(***************************************************************************)
MaxRows == 2
MaxSheets == 2

\* a row of a sheet that has none of the columns
BlankRow ==
    [apt |-> Undef, bukkenmei |-> Undef, jusho |-> Undef, nyukyoninzu |-> Undef,
     yachin |-> Undef, usnYachin |-> Undef, chushajodai |-> Undef,
     keiyakuKaishibi |-> Undef, keiyakuShuryo |-> Undef, kana |-> Undef,
     chushajo |-> Undef, nyukyo |-> Undef, shainNo |-> Undef, ID |-> Undef,
     shimei |-> Undef, Name |-> Undef, hakensaki |-> Undef]

Str_A == <<"A">>
Str_B == <<"B">>
Str_Ka == <<"K", "a">>

\* a row of a sheet with the columns ｱﾊﾟｰﾄ, 入居人数, 家賃, USN家賃, カナ
RentRow(apt, ninzu, kana) ==
    [BlankRow EXCEPT !.apt = apt, !.nyukyoninzu = ninzu, !.yachin = S(<<>>),
                     !.usnYachin = S(<<>>), !.kana = kana]

RentRows ==
    {RentRow(S(Str_A), N(1), S(Str_Ka)),
     RentRow(S(<<" ">> \o Str_B), S(<<>>), S(Str_Ka)),
     RentRow(S(<<>>), N(1), S(<<" ">>)),
     RentRow(N(7), N(1), S(Str_Ka))}

\* a row of a roster with the columns 社員No, 氏名, カナ
RosterRow(no, shimei, kana) ==
    [BlankRow EXCEPT !.shainNo = no, !.shimei = shimei, !.kana = kana]

RosterRows ==
    {RosterRow(N(1), S(Str_A), S(Str_Ka)),
     RosterRow(S(<<"E", "1", " ">>), S(Str_B), S(<<>>)),
     RosterRow(S(<<>>), S(Str_A), S(Str_Ka)),
     RosterRow(S(<<"E", "1">>), S(<<>>), S(Str_Ka)),
     RosterRow(S(<<"E", "1">>), N(5), S(Str_Ka)),
     RosterRow(S(<<"E", "2">>), S(Str_A), Undef)}

\* a row of a roster with the columns 社員No, ID, 氏名, Name, カナ
RosterRowsWithAliases ==
    {[RosterRow(S(<<>>), S(<<>>), S(Str_Ka)) EXCEPT
         !.ID = S(<<"E", "2">>), !.Name = S(Str_B)],
     [RosterRow(S(<<>>), S(Str_A), S(Str_Ka)) EXCEPT
         !.ID = S(<<" ">>), !.Name = S(<<>>)]}

Name_Bukken == <<"butsu", "ken">>
Name_Nyukyo == <<"nyu", "kyo">>
Name_BukkenNyukyo == <<"butsu", "ken", "nyu", "kyo">>
Name_Shain == <<"sha", "in">>
Name_Genzai == <<"D", "B", "G", "e", "n", "z", "a", "i", "X">>
Name_genzai == <<"g", "e", "n", "z", "a", "i">>
Name_Kaisharyo == <<"kai", "sha", "ryo", "jo", "ho">>
Name_ShainBukken == <<"sha", "in", "butsu", "ken">>
Name_Sheet1 == <<"S", "h", "e", "e", "t", "1">>
Name_NyuKyo == <<"nyu", " ", "kyo">>

Workbook(names, sheets) ==
    [XLSX |-> TRUE, SheetNames |-> names, Sheets |-> sheets]

RentWorkbooks ==
    {Workbook(<<Name_Bukken, Name_Nyukyo>>, <<ps, ts>>) :
        ps \in SeqsUpTo(RentRows, MaxRows), ts \in SeqsUpTo(RentRows, MaxRows)}
    \cup {Workbook(<<n>>, <<rs>>) :
        n \in {Name_Bukken, Name_Nyukyo, Name_BukkenNyukyo},
        rs \in SeqsUpTo(RentRows, MaxRows)}

RosterWorkbooks ==
    {Workbook(<<Name_Shain>>, <<rs>>) :
        rs \in SeqsUpTo(RosterRows, MaxRows)
               \cup SeqsUpTo(RosterRowsWithAliases, MaxRows)}

\* window.XLSX was not loaded
NoXLSX == [Workbook(<<Name_Bukken>>, <<<<>>>>) EXCEPT !.XLSX = FALSE]

StoreIdle ==
    /\ db = INITIAL_DB
    /\ rendered = INITIAL_DB
    /\ prev = INITIAL_DB
    /\ call = NoCall

ImportStart ==
    /\ pc = "start"
    /\ idx = 0
    /\ properties = <<>>
    /\ tenants = <<>>
    /\ employees = <<>>
    /\ errors = <<>>
    /\ result = <<>>
    /\ now = 1
    /\ StoreIdle

InitImport ==
    /\ wb \in RentWorkbooks \cup RosterWorkbooks \cup {NoXLSX}
    /\ ImportStart

SpecImport == InitImport /\ [][NextImport]_vars

\* a row that every pipeline accepts
MixedRow ==
    [RentRow(S(Str_A), N(1), S(Str_Ka)) EXCEPT
        !.shainNo = S(<<"E", "1">>), !.shimei = S(Str_A)]

SheetNameSet ==
    {Name_Bukken, Name_Nyukyo, Name_BukkenNyukyo, Name_Shain, Name_Genzai,
     Name_genzai, Name_Kaisharyo, Name_ShainBukken, Name_Sheet1, Name_NyuKyo}

\* workbooks of up to MaxSheets sheets with distinct names
ClassifyWorkbooks ==
    {Workbook(names, [i \in DOMAIN names |-> <<MixedRow>>]) :
        names \in {ns \in SeqsUpTo(SheetNameSet, MaxSheets) :
                      \A i, j \in DOMAIN ns : i # j => ns[i] # ns[j]}}

InitClassify ==
    /\ wb \in ClassifyWorkbooks
    /\ ImportStart

SpecClassify == InitClassify /\ [][NextImport]_vars

(***************************************************************************)
(* Claims about the store                                                  *)
(***************************************************************************)
\* the elements of s that satisfy keep, by rank: the i-th kept element of s is
\* element number (kept elements up to i) of r
KeptInOrder(s, r, keep(_)) ==
    LET kept == {i \in DOMAIN s : keep(s[i])}
    IN  /\ Len(r) = Cardinality(kept)
        /\ \A i \in kept : r[Cardinality({j \in kept : j <= i})] = s[i]

\* C1: deleteProperty(id) cascades: afterwards no property has that id and no
\* tenant has property_id = id, and every other property and every tenant of
\* another property is still there, unchanged and in the same order.
C1_DeletePropertyCascades ==
    call.op = "deleteProperty" =>
        /\ \A i \in DOMAIN db.properties : db.properties[i].id # call.id
        /\ \A i \in DOMAIN db.tenants : db.tenants[i].property_id # call.id
        /\ KeptInOrder(prev.properties, db.properties, LAMBDA p : p.id # call.id)
        /\ KeptInOrder(prev.tenants, db.tenants,
                       LAMBDA t : t.property_id # call.id)

\* C1 witness: a property with a tenant was deleted while another property
\* and its tenant stayed.
C1_Witness ==
    /\ call.op = "deleteProperty"
    /\ Len(prev.properties) = 2 /\ Len(db.properties) = 1
    /\ Len(prev.tenants) = 2 /\ Len(db.tenants) = 1
    /\ \E i \in DOMAIN prev.tenants : prev.tenants[i].property_id = call.id

DistinctIds(s) == \A i, j \in DOMAIN s : i # j => s[i].id # s[j].id

\* C7: employee ids stay pairwise distinct after any sequence of addEmployees
\* calls starting from a store with distinct ids, for any candidate list,
\* also one that repeats an id (so merging the same list twice leaves exactly
\* one copy of each id).
C7_EmployeeIdsDistinct == DistinctIds(db.employees)

\* C8: addEmployees is first-write-wins and additive-only: the employees
\* already stored remain, unchanged, a prefix of the new list, no appended
\* employee has an id that was already stored, and properties, tenants and
\* config are untouched.
C8_AddEmployeesAdditive ==
    call.op = "addEmployees" =>
        /\ Len(db.employees) >= Len(prev.employees)
        /\ SubSeq(db.employees, 1, Len(prev.employees)) = prev.employees
        /\ \A i \in DOMAIN db.employees :
               i > Len(prev.employees) =>
                   \A j \in DOMAIN prev.employees :
                       prev.employees[j].id # db.employees[i].id
        /\ db.properties = prev.properties
        /\ db.tenants = prev.tenants
        /\ db.config = prev.config

\* C8 witness: an incoming employee carried the id of a stored employee and
\* another name, in a store that holds a property and a tenant.
C8_Witness ==
    /\ call.op = "addEmployees"
    /\ db.properties # <<>> /\ db.tenants # <<>>
    /\ \E i \in DOMAIN prev.employees : \E j \in DOMAIN call.arg :
           /\ call.arg[j].id = prev.employees[i].id
           /\ call.arg[j].name # prev.employees[i].name
    /\ Len(db.employees) > Len(prev.employees)

(***************************************************************************)
(* Claims about validateDataIntegrity                                      *)
(***************************************************************************)
ErrorsOf(ret, type, name, a, b) ==
    {i \in DOMAIN ret.errors :
        /\ ret.errors[i].type = type
        /\ ret.errors[i].message.name = name
        /\ ret.errors[i].message.a = a
        /\ ret.errors[i].message.b = b}

Dangling(d) ==
    {j \in DOMAIN d.tenants :
        \A k \in DOMAIN d.properties :
            d.properties[k].id # d.tenants[j].property_id}

\* C3: FK rule: the output holds exactly one FK_ERROR, naming the tenant and
\* the missing id, for each tenant whose property_id is the id of no property
\* of the set, and no FK_ERROR for a tenant whose property_id resolves.
C3_FkRule ==
    call.op = "validateDataIntegrity" =>
        /\ Cardinality({i \in DOMAIN call.ret.errors :
                           call.ret.errors[i].type = "FK_ERROR"})
               = Cardinality(Dangling(db))
        /\ \A j \in DOMAIN db.tenants :
               Cardinality(ErrorsOf(call.ret, "FK_ERROR", db.tenants[j].name,
                                    db.tenants[j].property_id, 0))
                   = Cardinality({k \in Dangling(db) :
                          /\ db.tenants[k].name = db.tenants[j].name
                          /\ db.tenants[k].property_id = db.tenants[j].property_id})

\* C3 witness: a set with two dangling tenants and one that resolves.
C3_Witness ==
    /\ call.op = "validateDataIntegrity"
    /\ Cardinality(Dangling(db)) = 2
    /\ Len(db.tenants) > 2 \/ Len(db.properties) > 0
    /\ Len(call.ret.errors) >= 2

Occupancy(d, k) ==
    Cardinality({j \in DOMAIN d.tenants :
                    /\ d.tenants[j].property_id = d.properties[k].id
                    /\ d.tenants[j].status = "active"})

OverCapacity(d) ==
    {k \in DOMAIN d.properties : Occupancy(d, k) > d.properties[k].capacity}

\* C4: capacity rule: the output holds exactly one CAPACITY_ERROR, carrying
\* the count/capacity pair, for each property whose number of active tenants
\* is strictly greater than its capacity; inactive tenants are not counted
\* and count = capacity is no error.
C4_CapacityRule ==
    call.op = "validateDataIntegrity" =>
        /\ Cardinality({i \in DOMAIN call.ret.errors :
                           call.ret.errors[i].type = "CAPACITY_ERROR"})
               = Cardinality(OverCapacity(db))
        /\ \A k \in DOMAIN db.properties :
               Cardinality(ErrorsOf(call.ret, "CAPACITY_ERROR",
                                    db.properties[k].name, Occupancy(db, k),
                                    db.properties[k].capacity))
                   = Cardinality({m \in OverCapacity(db) :
                          /\ db.properties[m].name = db.properties[k].name
                          /\ Occupancy(db, m) = Occupancy(db, k)
                          /\ db.properties[m].capacity = db.properties[k].capacity})

\* C4 witness: capacity 1 with 2 active tenants gives one error "2/1".
C4_Witness ==
    /\ call.op = "validateDataIntegrity"
    /\ \E k \in DOMAIN db.properties :
           /\ db.properties[k].capacity = 1
           /\ Occupancy(db, k) = 2
           /\ Cardinality(ErrorsOf(call.ret, "CAPACITY_ERROR",
                                   db.properties[k].name, 2, 1)) = 1

(***************************************************************************)
(* Claims about the import pipelines                                       *)
(***************************************************************************)
RentDone == pc = "done" /\ result.type = "rent_management"

PropertyFields == {"propiedad", "nombre"}
TenantFields == {"inquilino", "apt/kana", "apartamento"}

\* the row errors of the result recorded for row number i by one pass
ErrorsOfRow(i, fields) ==
    {e \in DOMAIN result.errors :
        result.errors[e].row = i /\ result.errors[e].field \in fields}

ErrorsOfPass(fields) ==
    {e \in DOMAIN result.errors : result.errors[e].field \in fields}

CandidateNames == {result.data.properties[k].name : k \in DOMAIN result.data.properties}

\* the apartment name of a tenant row
AptName(row) == Trim(String(row.apt))

\* the tenant rows whose apartment name is the name of no Property candidate
Unmatched ==
    {i \in DOMAIN SheetData(wb, TenantMarkers) :
        AptName(SheetData(wb, TenantMarkers)[i]) \notin CandidateNames}

ImpId(i) == <<"I", "M", "P", "-">> \o NatToStr(i - 1)

\* C2: a tenant row whose apartment name equals no name among the Property
\* candidates of the run gets exactly one row error and no Tenant candidate;
\* every Tenant candidate's property_id is the id of a Property candidate of
\* the run; and success is false whenever such a row exists.
C2_NoOrphanTenant ==
    RentDone =>
        /\ \A i \in Unmatched :
               /\ Cardinality(ErrorsOfRow(i, TenantFields)) = 1
               /\ \A k \in DOMAIN result.data.tenants :
                      result.data.tenants[k].employee_id # ImpId(i)
        /\ \A k \in DOMAIN result.data.tenants :
               \E j \in DOMAIN result.data.properties :
                   result.data.properties[j].id = result.data.tenants[k].property_id
        /\ Unmatched # {} => ~result.success

\* C2 witness: a well-formed tenant row named a property that is no candidate
\* ("property not found") while another tenant row was matched.
C2_Witness ==
    /\ RentDone
    /\ \E e \in DOMAIN result.errors : result.errors[e].field = "apartamento"
    /\ result.data.tenants # <<>>
    /\ ~result.success

\* C5: success is true iff there is no row error and the candidate set passes
\* the integrity rules (no dangling tenant, no property over capacity); the
\* integrity errors follow the row errors in the result's error list.
C5_SuccessIffCleanAndValid ==
    RentDone =>
        LET cand == [properties |-> result.data.properties,
                     tenants |-> result.data.tenants]
            n == Len(errors)
        IN  /\ result.success <=>
                   (n = 0 /\ Dangling(cand) = {} /\ OverCapacity(cand) = {})
            /\ Len(result.errors) =
                   n + Cardinality(Dangling(cand)) + Cardinality(OverCapacity(cand))
            /\ SubSeq(result.errors, 1, n) = errors
            /\ \A i \in (n + 1)..Len(result.errors) :
                   result.errors[i].field \in {"FK_ERROR", "CAPACITY_ERROR"}

\* C5 witness: no row error, yet a property over capacity makes the run fail.
C5_Witness ==
    /\ RentDone
    /\ errors = <<>>
    /\ ~result.success
    /\ \E i \in DOMAIN result.errors : result.errors[i].field = "CAPACITY_ERROR"

\* the candidates r are the rows of data that satisfy keep, in order: the
\* i-th kept row is matched, by same, with candidate number (kept rows up to i)
CandidatesOfKept(data, keep(_), r, same(_, _)) ==
    LET kept == {i \in DOMAIN data : keep(data[i])}
    IN  /\ Len(r) = Cardinality(kept)
        /\ \A i \in kept : same(i, r[Cardinality({j \in kept : j <= i})])

ValidPropertyRow(row) ==
    validateExcelPropertyRow(row) /\ PropertyName(row) # <<>>

ValidTenantRow(row) ==
    /\ validateExcelTenantRow(row)
    /\ AptName(row) # <<>>
    /\ Trim(String(row.kana)) # <<>>
    /\ AptName(row) \in CandidateNames

ValidEmployeeRow(row) ==
    validateExcelEmployeeRow(row) /\ EmployeeId(row) # <<>> /\ EmployeeName(row) # <<>>

\* C6: the pipelines never short-circuit: for each located sheet, candidates +
\* row errors of that pass = rows, and every valid row, also one after a
\* failing row, is a candidate (in row order).
C6_NoShortCircuit ==
    (pc = "done" /\ result.hasData) =>
        IF result.type = "rent_management"
        THEN /\ Len(result.data.properties) + Cardinality(ErrorsOfPass(PropertyFields))
                    = Len(SheetData(wb, PropertyMarkers))
             /\ Len(result.data.tenants) + Cardinality(ErrorsOfPass(TenantFields))
                    = Len(SheetData(wb, TenantMarkers))
             /\ CandidatesOfKept(SheetData(wb, PropertyMarkers), ValidPropertyRow,
                    result.data.properties,
                    LAMBDA i, c :
                        c.name = PropertyName(SheetData(wb, PropertyMarkers)[i]))
             /\ CandidatesOfKept(SheetData(wb, TenantMarkers), ValidTenantRow,
                    result.data.tenants,
                    LAMBDA i, c : c.employee_id = ImpId(i))
        ELSE /\ Len(result.data.employees) + Len(result.errors)
                    = Len(SheetData(wb, EmployeeMarkers))
             /\ CandidatesOfKept(SheetData(wb, EmployeeMarkers), ValidEmployeeRow,
                    result.data.employees,
                    LAMBDA i, c :
                        c.full_data = SheetData(wb, EmployeeMarkers)[i])

\* C6 witness: the first property row failed and the second, valid, became a
\* candidate.
C6_Witness ==
    /\ RentDone
    /\ Len(SheetData(wb, PropertyMarkers)) = 2
    /\ ~ValidPropertyRow(SheetData(wb, PropertyMarkers)[1])
    /\ ValidPropertyRow(SheetData(wb, PropertyMarkers)[2])
    /\ Len(result.data.properties) = 1
    /\ Cardinality(ErrorsOfRow(1, PropertyFields)) = 1

NameHas(markers) ==
    \E i \in DOMAIN wb.SheetNames : \E m \in markers :
        \E k \in 1..Len(wb.SheetNames[i]) :
            /\ k + Len(m) - 1 <= Len(wb.SheetNames[i])
            /\ \A d \in 1..Len(m) : wb.SheetNames[i][k + d - 1] = m[d]

\* the pipeline processFile chose
Route ==
    CASE pc = "done" -> result.type
      [] pc = "employees" -> "employees"
      [] pc \in {"properties", "tenants"} -> "rent_management"
      [] OTHER -> "none"

\* C9: classification priority: a roster marker ('Genzai', 'Ukeoi', '社員')
\* in any sheet name chooses the employee pipeline, even when property or
\* tenant markers are present; otherwise a property ('会社寮情報', '物件')
\* or tenant ('入居者一覧', '入居') marker chooses the rent-management
\* pipeline; otherwise the result is Unrecognized.
C9_ClassificationPriority ==
    (pc # "start" /\ wb.XLSX) =>
        LET hasEmployees ==
                NameHas({<<"G", "e", "n", "z", "a", "i">>,
                         <<"U", "k", "e", "o", "i">>, <<"sha", "in">>})
            hasRent ==
                NameHas({<<"kai", "sha", "ryo", "jo", "ho">>, <<"butsu", "ken">>,
                         <<"nyu", "kyo", "mono", "ichi", "ran">>, <<"nyu", "kyo">>})
        IN  /\ hasEmployees => Route = "employees"
            /\ (~hasEmployees /\ hasRent) => Route = "rent_management"
            /\ (~hasEmployees /\ ~hasRent) => (pc = "done" /\ Route = "")

\* C9 witness: a workbook with a property sheet and a roster sheet went to the
\* employee pipeline.
C9_Witness ==
    /\ pc = "done"
    /\ wb.SheetNames = <<Name_Bukken, Name_Shain>>
    /\ result.type = "employees"

\* C10: when no sheet name matches a marker, processFile returns (does not
\* reject) a result with success = false, no candidates, an empty error
\* list and an explanatory summary.
C10_UnrecognizedIsFailedResult ==
    (pc = "done" /\ wb.XLSX
        /\ ~NameHas(EmployeeMarkers \cup PropertyMarkers \cup TenantMarkers)) =>
        /\ ~result.rejected
        /\ ~result.success
        /\ result.data = NoData /\ ~result.hasData
        /\ result.errors = <<>>
        /\ result.summary.tpl = "No se detecto formato valido de importacion"

\* C10 witness: sheet names that only come close to a marker ("genzai",
\* "入 居") were not recognised.
C10_Witness ==
    /\ pc = "done"
    /\ wb.SheetNames = <<Name_genzai, Name_NyuKyo>>
    /\ ~result.success
    /\ result.type = ""

RosterDone == pc = "done" /\ result.type = "employees"

\* a cell that is missing (no such column) or blank
BlankCell(c) == c = Undef \/ (c.t = "str" /\ Trim(c.s) = <<>>)

\* the trimmed text of the first of two alias cells that is not blank
OwnCellText(a, b) ==
    IF ~BlankCell(a) THEN Trim(String(a))
    ELSE IF ~BlankCell(b) THEN Trim(String(b))
    ELSE <<>>

CandidatesOfRow(row) ==
    {k \in DOMAIN result.data.employees : result.data.employees[k].full_data = row}

ErrorsOfRosterRow(i) ==
    {e \in DOMAIN result.errors : result.errors[e].row = i}

\* C12: a roster row whose id cell is blank or missing (name present), or
\* whose name cell is blank, is a row error and gives no Employee candidate;
\* every Employee candidate has a non-empty id and name, the trimmed values
\* of its row's own id / name cells.
C12_IdAndNameRequired ==
    RosterDone =>
        LET data == SheetData(wb, EmployeeMarkers)
        IN  /\ \A i \in DOMAIN data :
                   (\/ (BlankCell(data[i].shainNo) /\ BlankCell(data[i].ID)
                            /\ data[i].shimei # Undef)
                    \/ (BlankCell(data[i].shimei) /\ BlankCell(data[i].Name)
                            /\ data[i].shimei # Undef))
                   => /\ ErrorsOfRosterRow(i) # {}
                      /\ CandidatesOfRow(data[i]) = {}
            /\ \A k \in DOMAIN result.data.employees :
                   LET c == result.data.employees[k]
                   IN  /\ c.id # <<>> /\ c.name # <<>>
                       /\ c.id = OwnCellText(c.full_data.shainNo, c.full_data.ID)
                       /\ c.name = OwnCellText(c.full_data.shimei, c.full_data.Name)

\* C13: a roster row with a valid id and name whose kana cell and / or company
\* cell is missing is not an error: it gives an Employee candidate whose
\* name_kana / company is the empty string.
C13_KanaAndCompanyOptional ==
    RosterDone =>
        LET data == SheetData(wb, EmployeeMarkers)
        IN  \A i \in DOMAIN data :
                (/\ OwnCellText(data[i].shainNo, data[i].ID) # <<>>
                 /\ data[i].shimei.t = "str"
                 /\ OwnCellText(data[i].shimei, data[i].Name) # <<>>
                 /\ (data[i].kana = Undef \/ data[i].hakensaki = Undef))
                => /\ ErrorsOfRosterRow(i) = {}
                   /\ \E k \in CandidatesOfRow(data[i]) :
                          /\ data[i].kana = Undef =>
                                 result.data.employees[k].name_kana = <<>>
                          /\ data[i].hakensaki = Undef =>
                                 result.data.employees[k].company = <<>>

(***************************************************************************)
(* The rent-management pipeline over the values a numeric cell can hold    *)
(***************************************************************************)
\* what sheet_to_json can hand over for a numeric column: no such column, a
\* blank cell, text without a numeral, numerals (signed, padded, followed by
\* text) and numbers (zero, negative, small, larger than CapacityMax)
CellValues ==
    {Undef, S(<<>>), S(<<"x">>), S(<<"-", "5">>), S(<<" ", "7", "x">>),
     S(<<"0">>), N(0), N(-3), N(3), N(25)}

\* a row of a sheet that holds the property and the tenant columns
CellRow(ninzu, money) ==
    [RentRow(S(Str_A), ninzu, S(Str_Ka)) EXCEPT
        !.yachin = money, !.usnYachin = money, !.chushajodai = money,
        !.chushajo = money]

CellWorkbooks ==
    {Workbook(<<Name_BukkenNyukyo>>, <<<<CellRow(ninzu, money)>>>>) :
        ninzu \in CellValues, money \in CellValues}

InitCells ==
    /\ wb \in CellWorkbooks
    /\ ImportStart

NextRent ==
    \/ TickBetweenRows
    \/ ProcessFile
    \/ PropertyRow
    \/ PropertiesEnd
    \/ TenantRow
    \/ RentReturn

SpecCells == InitCells /\ [][NextRent]_vars

\* a cell that is missing, blank, or text in which no numeral starts
NoNumeral(c) ==
    \/ BlankCell(c)
    \/ c.t = "str" /\ ~IsDigit(Head(Trim(c.s))) /\ Head(Trim(c.s)) \notin {"-", "+"}

\* C14: every Property and Tenant candidate of the rent-management pipeline
\* has non-negative monetary fields whatever the cells hold: a missing, blank
\* or non-numeric cell gives 0 and never rejects the row, and no cell value
\* (a negative numeral included) gives a negative amount.
C14_MoneyNonNegative ==
    RentDone =>
        LET row == SheetData(wb, PropertyMarkers)[1]
        IN  /\ Len(result.data.properties) = 1 /\ Len(result.data.tenants) = 1
            /\ \A k \in DOMAIN result.data.properties :
                   /\ result.data.properties[k].rent_cost >= 0
                   /\ result.data.properties[k].rent_price_uns >= 0
                   /\ result.data.properties[k].parking_cost >= 0
                   /\ NoNumeral(row.yachin) =>
                          result.data.properties[k].rent_cost = 0
            /\ \A k \in DOMAIN result.data.tenants :
                   /\ result.data.tenants[k].rent_contribution >= 0
                   /\ result.data.tenants[k].parking_fee >= 0
                   /\ NoNumeral(row.yachin) =>
                          result.data.tenants[k].rent_contribution = 0

\* C15: every Property candidate of the rent-management pipeline has an
\* integer capacity in 1..20, whatever the capacity cell holds (blank,
\* non-numeric, zero, negative, larger than 20).
C15_CapacityInRange ==
    RentDone =>
        \A k \in DOMAIN result.data.properties :
            result.data.properties[k].capacity \in CapacityMin..CapacityMax

(***************************************************************************)
(* Dates (day resolution: the clock counts days, 1 = 2026-01-01)           *)
(***************************************************************************)
NaN == [nan |-> TRUE, v |-> 0]

\* days of the year before the first of each month (2026 has 365 days)
DaysBefore == <<0, 31, 59, 90, 120, 151, 181, 212, 243, 273, 304, 334>>

\* new Date(string) for the ISO forms YYYY-MM-DD and YYYY-MM-DDTHH:MM:SSZ:
\* the time value, or NaN (Invalid Date) for any other text
NewDate(str) ==
    IF /\ Len(str) >= 10
       /\ \A i \in {1, 2, 3, 4, 6, 7, 9, 10} : IsDigit(str[i])
       /\ str[5] = "-" /\ str[8] = "-"
       /\ (Len(str) = 10 \/ IsDatetime(str))
    THEN LET year == DigitsValue(SubSeq(str, 1, 4), 0)
             month == DigitsValue(SubSeq(str, 6, 7), 0)
             day == DigitsValue(SubSeq(str, 9, 10), 0)
         IN  IF month \in 1..12 /\ day \in 1..31
             THEN [nan |-> FALSE,
                   v |-> (year - 2026) * 365 + DaysBefore[month] + day]
             ELSE NaN
    ELSE NaN

\* !value for an optional string field
Falsy(str) == str = Absent \/ str = <<>>

\* mutant: an unparseable contract_end counts as expired
isPropertyActive_FailClosed(p, today) ==
    IF Falsy(p.contract_end) THEN TRUE
    ELSE ~NewDate(p.contract_end).nan /\ NewDate(p.contract_end).v > today

\* isPropertyActive(p), with new Date() = today
isPropertyActive(p, today) ==
    IF Falsy(p.contract_end) THEN TRUE
    ELSE LET d == NewDate(p.contract_end)
         IN  d.nan \/ d.v > today

(***************************************************************************)
(* Dashboard: the metrics memo                                             *)
(***************************************************************************)
AlertDays == 60
HighDays == 30

\* numbers.reduce((acc, x) => acc + x, 0)
RECURSIVE SumSeq(_)
SumSeq(s) == IF s = <<>> THEN 0 ELSE Head(s) + SumSeq(Tail(s))

Abs(n) == IF n < 0 THEN -n ELSE n

\* Math.round(a / b * 100) for b > 0
RoundPercent(a, b) == (200 * a + b) \div (2 * b)

\* p => !p.contract_end || new Date(p.contract_end) > new Date()
\* (a comparison with Invalid Date is false)
DashboardActive(p, today) ==
    \/ Falsy(p.contract_end)
    \/ ~NewDate(p.contract_end).nan /\ NewDate(p.contract_end).v > today

\* mutant: the alert window excludes its last day
RECURSIVE ExpiryAlerts_Strict(_, _)
ExpiryAlerts_Strict(props, today) ==
    IF props = <<>> THEN <<>>
    ELSE LET p == Head(props)
             diffDays == Abs(NewDate(p.contract_end).v - today)
         IN  (IF ~Falsy(p.contract_end) /\ diffDays < AlertDays
              THEN <<[type |-> "warning", name |-> p.name, n |-> diffDays,
                      severity |-> IF diffDays <= HighDays THEN "high"
                                   ELSE "medium"]>>
              ELSE <<>>)
             \o ExpiryAlerts_Strict(Tail(props), today)

\* activeProps.forEach(p => { if (p.contract_end) ... alerts.push(...) })
RECURSIVE ExpiryAlerts(_, _)
ExpiryAlerts(props, today) ==
    IF props = <<>> THEN <<>>
    ELSE LET p == Head(props)
             diffDays == Abs(NewDate(p.contract_end).v - today)
         IN  (IF ~Falsy(p.contract_end) /\ diffDays <= AlertDays
              THEN <<[type |-> "warning", name |-> p.name, n |-> diffDays,
                      severity |-> IF diffDays <= HighDays THEN "high"
                                   ELSE "medium"]>>
              ELSE <<>>)
             \o ExpiryAlerts(Tail(props), today)

\* mutant: one alert per tenant without rent
ZeroRentAlerts_PerTenant(tnts) ==
    LET zeroRentTenants ==
            SelectSeq(tnts, LAMBDA t : t.status = "active" /\ t.rent_contribution = 0)
    IN  [i \in DOMAIN zeroRentTenants |->
            [type |-> "danger", name |-> <<>>, n |-> 1, severity |-> "high"]]

\* zeroRentTenants and its alert
ZeroRentAlerts(tnts) ==
    LET zeroRentTenants ==
            SelectSeq(tnts, LAMBDA t : t.status = "active" /\ t.rent_contribution = 0)
    IN  IF Len(zeroRentTenants) > 0
        THEN <<[type |-> "danger", name |-> <<>>, n |-> Len(zeroRentTenants),
                severity |-> "high"]>>
        ELSE <<>>

\* the useMemo callback of Dashboard
Metrics(store, today) ==
    LET activeProps == SelectSeq(store.properties,
                                 LAMBDA p : DashboardActive(p, today))
        occupiedCount ==
            Len(SelectSeq(store.tenants, LAMBDA t : t.status = "active"))
        totalCapacity ==
            SumSeq([i \in DOMAIN activeProps |-> activeProps[i].capacity])
        totalCollected ==
            SumSeq([i \in DOMAIN store.tenants |->
                       IF store.tenants[i].status = "active"
                       THEN store.tenants[i].rent_contribution ELSE 0])
            + SumSeq([i \in DOMAIN store.tenants |->
                         IF store.tenants[i].status = "active"
                         THEN store.tenants[i].parking_fee ELSE 0])
        totalPropCost ==
            SumSeq([i \in DOMAIN activeProps |->
                       activeProps[i].rent_cost + activeProps[i].parking_cost])
    IN  [activeProps |-> activeProps,
         totalProperties |-> Len(activeProps),
         occupiedCount |-> occupiedCount,
         totalCapacity |-> totalCapacity,
         occupancyRate |-> IF totalCapacity > 0
                           THEN RoundPercent(occupiedCount, totalCapacity)
                           ELSE 0,
         profit |-> totalCollected - totalPropCost,
         totalCollected |-> totalCollected,
         totalPropCost |-> totalPropCost,
         totalTargetUNS |->
             SumSeq([i \in DOMAIN activeProps |-> activeProps[i].rent_price_uns]),
         alerts |-> ExpiryAlerts(activeProps, today)
                    \o ZeroRentAlerts(store.tenants)]

(***************************************************************************)
(* Specification of the dashboard: stores as localStorage or an import     *)
(* can leave them, seen on a day                                           *)
(***************************************************************************)
Pad2(n) == <<Digits[(n \div 10) + 1], Digits[(n % 10) + 1]>>

\* the text YYYY-MM-DD of a day of 2026
DateStr(month, day) ==
    <<"2", "0", "2", "6", "-">> \o Pad2(month) \o <<"-">> \o Pad2(day)

ContractEnds ==
    {Absent, <<>>, <<"x">>, DateStr(1, 2), DateStr(2, 10), DateStr(4, 1),
     Str_Datetime}

DashProperty(i, contractEnd) ==
    [id |-> i, name |-> Str_Sa, address |-> Str_Tokyo, address_auto |-> Str_Tokyo,
     capacity |-> 2, rent_cost |-> 50, rent_price_uns |-> 100,
     parking_cost |-> 10, type |-> Str_1K,
     contract_start |-> Absent, contract_end |-> contractEnd]

DashTenant(i, status, rent) ==
    [id |-> i, employee_id |-> <<"E">> \o NatToStr(i), name |-> Str_Tanaka,
     name_kana |-> Str_Tanaka, property_id |-> 1, rent_contribution |-> rent,
     parking_fee |-> 5, entry_date |-> Str_Datetime, status |-> status]

DashStores ==
    {[INITIAL_DB EXCEPT
        !.properties = [i \in DOMAIN ces |-> DashProperty(i, ces[i])],
        !.tenants = [i \in DOMAIN ts |-> DashTenant(i, ts[i][1], ts[i][2])]] :
        ces \in SeqsUpTo(ContractEnds, MaxProps),
        ts \in SeqsUpTo({<<"active", 0>>, <<"active", 100>>, <<"inactive", 0>>},
                        MaxTenants)}

InitDashboard ==
    /\ db \in DashStores
    /\ rendered = db
    /\ prev = db
    /\ call = NoCall
    /\ now = 1
    /\ ImportIdle

\* isPropertyActive(p) called on a property of the store
IsPropertyActiveCall(i) ==
    /\ i \in DOMAIN db.properties
    /\ call' = [op |-> "isPropertyActive", id |-> now, arg |-> db.properties[i],
                ret |-> isPropertyActive(db.properties[i], now)]
    /\ UNCHANGED <<db, rendered, prev, now, importVars>>

\* Dashboard renders: the metrics memo is computed from db
DashboardRender ==
    /\ call' = [op |-> "Dashboard", id |-> now, arg |-> <<>>,
                ret |-> Metrics(db, now)]
    /\ UNCHANGED <<db, rendered, prev, now, importVars>>

NextDashboard ==
    \/ Tick
    \/ \E i \in 1..MaxProps : IsPropertyActiveCall(i)
    \/ DashboardRender

SpecDashboard == InitDashboard /\ [][NextDashboard]_vars

\* C16: fail-open law: isPropertyActive(P) is true when contract_end is
\* absent, empty or does not parse as a date; for a parseable contract_end it
\* is true exactly when that date is strictly after the current time.
C16_FailOpen ==
    call.op = "isPropertyActive" =>
        LET end == call.arg.contract_end
        IN  IF end = Absent \/ end = <<>> \/ NewDate(end).nan
            THEN call.ret = TRUE
            ELSE call.ret = (NewDate(end).v > call.id)

\* C16 witness: a property whose contract_end does not parse was found active,
\* and one whose contract_end is today was found expired.
C16_Witness ==
    /\ call.op = "isPropertyActive"
    /\ \/ call.arg.contract_end = <<"x">> /\ call.ret = TRUE
       \/ NewDate(call.arg.contract_end) = [nan |-> FALSE, v |-> call.id]
              /\ call.ret = FALSE

\* C17: the properties the Dashboard counts as active (totalProperties,
\* totalCapacity, totalPropCost, totalTargetUNS, expiry alerts) are exactly
\* { P : isPropertyActive(P) }, unparseable contract_end included.
C17_DashboardActiveSet ==
    call.op = "Dashboard" =>
        LET active == SelectSeq(db.properties,
                                LAMBDA p : isPropertyActive(p, call.id))
        IN  /\ call.ret.activeProps = active
            /\ call.ret.totalProperties = Len(active)
            /\ call.ret.totalCapacity =
                   SumSeq([i \in DOMAIN active |-> active[i].capacity])
            /\ call.ret.totalPropCost =
                   SumSeq([i \in DOMAIN active |->
                              active[i].rent_cost + active[i].parking_cost])
            /\ call.ret.totalTargetUNS =
                   SumSeq([i \in DOMAIN active |-> active[i].rent_price_uns])
            /\ \A a \in Range(call.ret.alerts) :
                   a.type = "warning" => \E p \in Range(active) : p.name = a.name

(***************************************************************************)
(* Rent Allocation Engine: distributeEvenly (the handler behind            *)
(* RentManager's onDistributeEvenly), as the specification describes it    *)
(***************************************************************************)
MaxShare == 3

\* the positions in store order of the active tenants of a property
ActiveOf(store, propertyId) ==
    {i \in DOMAIN store.tenants :
        /\ store.tenants[i].property_id = propertyId
        /\ store.tenants[i].status = "active"}

RentOf(store, propertyId) ==
    (CHOOSE p \in Range(store.properties) : p.id = propertyId).rent_price_uns

\* mutant: every tenant gets the base, the remainder is dropped
distributeEvenly_RemainderDropped(store, propertyId) ==
    LET active == ActiveOf(store, propertyId)
    IN  IF active = {}
        THEN [db |-> store, ret |-> Fail("nothing to distribute")]
        ELSE [db |-> [store EXCEPT !.tenants =
                        [i \in DOMAIN @ |->
                            IF i \in active
                            THEN [@[i] EXCEPT !.rent_contribution =
                                     RentOf(store, propertyId) \div Cardinality(active)]
                            ELSE @[i]]],
              ret |-> Ok]

\* mutant: no guard for a property without active tenants
distributeEvenly_NoGuard(store, propertyId) ==
    LET active == ActiveOf(store, propertyId)
    IN  [db |-> [store EXCEPT !.tenants =
                    [i \in DOMAIN @ |->
                        IF i \in active
                        THEN [@[i] EXCEPT !.rent_contribution =
                                 RentOf(store, propertyId)]
                        ELSE @[i]]],
         ret |-> Ok]

\* distributeEvenly(property): base = floor(rent_price_uns / N) to every active
\* tenant, base + (rent_price_uns mod N) to the first in store order; without
\* active tenants an error and no change
distributeEvenly(store, propertyId) ==
    LET active == ActiveOf(store, propertyId)
        tenantCount == Cardinality(active)
        first == CHOOSE i \in active : \A j \in active : i <= j
    IN  IF tenantCount = 0
        THEN [db |-> store, ret |-> Fail("nothing to distribute")]
        ELSE LET rent == RentOf(store, propertyId)
                 base == rent \div tenantCount
                 remainder == rent % tenantCount
             IN  [db |-> [store EXCEPT !.tenants =
                            [i \in DOMAIN @ |->
                                IF i = first
                                THEN [@[i] EXCEPT !.rent_contribution = base + remainder]
                                ELSE IF i \in active
                                THEN [@[i] EXCEPT !.rent_contribution = base]
                                ELSE @[i]]],
                  ret |-> Ok]

\* onDistributeEvenly(property.id), clicked in the RentManager of a property
DistributeEvenly(propertyId) ==
    /\ HasProperty(db.properties, propertyId)
    /\ db' = distributeEvenly(db, propertyId).db
    /\ Returned("distributeEvenly", propertyId, <<>>,
                distributeEvenly(db, propertyId).ret)

RentTenantKinds == {<<1, "active">>, <<1, "inactive">>, <<2, "active">>}

RentStores ==
    {[INITIAL_DB EXCEPT
        !.properties = <<[DashProperty(1, Absent) EXCEPT !.rent_price_uns = rent],
                         [DashProperty(2, Absent) EXCEPT !.rent_price_uns = 50]>>,
        !.tenants = [i \in DOMAIN ts |->
                        [DashTenant(i, ts[i][2], 10) EXCEPT !.property_id = ts[i][1]]]] :
        rent \in {0, 7, 100}, ts \in SeqsUpTo(RentTenantKinds, MaxShare)}

InitRent ==
    /\ db \in RentStores
    /\ rendered = db
    /\ prev = db
    /\ call = NoCall
    /\ now = 1
    /\ ImportIdle

NextRentManager ==
    \E propertyId \in {1, 2} : DistributeEvenly(propertyId) /\ Rerender

SpecRent == InitRent /\ [][NextRentManager]_vars

\* the contributions, in store order, of the tenants at the positions that
\* were active for the property of the last call when it was made
Shares(store) ==
    LET at == ActiveOf(prev, call.id)
        pos(k) == CHOOSE i \in at : Cardinality({j \in at : j <= i}) = k
    IN  [k \in 1..Cardinality(at) |-> store.tenants[pos(k)].rent_contribution]

\* C18: distributeEvenly on a property with N > 0 active tenants assigns
\* contributions whose sum is rent_price_uns exactly: floor(rent_price_uns / N)
\* to every tenant but the first in store order, and that plus
\* (rent_price_uns mod N) to the first.
C18_DistributeSumsToRent ==
    (call.op = "distributeEvenly" /\ ActiveOf(prev, call.id) # {}) =>
        LET size == Cardinality(ActiveOf(prev, call.id))
            rent == RentOf(prev, call.id)
            assigned == Shares(db)
        IN  /\ call.ret.success
            /\ SumSeq(assigned) = rent
            /\ assigned[1] = (rent \div size) + (rent % size)
            /\ \A k \in 2..size : assigned[k] = rent \div size
            /\ \A k \in 2..size : assigned[1] = assigned[k] + (rent % size)

\* C18 witness: 100 over three active tenants gave 34, 33, 33.
C18_Witness ==
    /\ call.op = "distributeEvenly"
    /\ RentOf(prev, call.id) = 100
    /\ Shares(db) = <<34, 33, 33>>

\* C19: distributeEvenly on a property with zero active tenants returns an
\* error result and leaves every tenant record of the store unmodified.
C19_DistributeNothing ==
    (call.op = "distributeEvenly" /\ ActiveOf(prev, call.id) = {}) =>
        /\ ~call.ret.success
        /\ call.ret.error # ""
        /\ db = prev

\* C19 witness: a property whose only tenants are inactive or live elsewhere.
C19_Witness ==
    /\ call.op = "distributeEvenly"
    /\ ActiveOf(prev, call.id) = {}
    /\ prev.tenants # <<>>
    /\ ~call.ret.success
    /\ db.tenants = prev.tenants

(***************************************************************************)
(* useDatabase: the update mutators                                        *)
(***************************************************************************)
\* EmployeeSchema.parse: the issues, in the order of the schema's keys
EmployeeIssues(emp) ==
       Issue(Len(emp.id) >= 1, "id", "ID requerido")
    \o Issue(Len(emp.name) >= 1, "name", "Nombre requerido")
    \o Issue(Len(emp.name_kana) >= 1, "name_kana", "Nombre kana requerido")

validateEmployee(emp) ==
    [success |-> EmployeeIssues(emp) = <<>>, errors |-> EmployeeIssues(emp)]

\* { ...existing, ...updates }
Merge(existing, updates) ==
    [f \in DOMAIN existing \cup DOMAIN updates |->
        IF f \in DOMAIN updates THEN updates[f] ELSE existing[f]]

\* array.find(x => x.id === id), for an array that holds the id
FindById(s, id) ==
    s[CHOOSE i \in DOMAIN s :
        s[i].id = id /\ \A j \in 1..(i - 1) : s[j].id # id]

HasId(s, id) == \E i \in DOMAIN s : s[i].id = id

\* array.map(x => x.id === id ? updated : x)
ReplaceById(s, id, updated) ==
    [i \in DOMAIN s |-> IF s[i].id = id THEN updated ELSE s[i]]

\* setDb(prev => ...) of updateProperty
updateProperty(d, id, updated) ==
    [d EXCEPT !.properties = ReplaceById(@, id, updated)]

\* setDb(prev => ...) of updateTenant
updateTenant(d, id, updated) ==
    [d EXCEPT !.tenants = ReplaceById(@, id, updated)]

\* setDb(prev => ...) of updateEmployee
updateEmployee(d, id, updated) ==
    [d EXCEPT !.employees = ReplaceById(@, id, updated)]

UpdateProperty(id, updates) ==
    IF ~HasId(rendered.properties, id)
    THEN /\ db' = db
         /\ Returned("updateProperty", id, updates, Fail("Propiedad no encontrada"))
    ELSE LET updated == Merge(FindById(rendered.properties, id), updates)
             validation == validateProperty(updated)
         IN  IF ~validation.success
             THEN /\ db' = db
                  /\ Returned("updateProperty", id, updates,
                              Invalid(validation.errors))
             ELSE /\ db' = updateProperty(db, id, updated)
                  /\ Returned("updateProperty", id, updates, Ok)

\* mutant: the record is written before it is validated
UpdateTenant_WriteThenValidate(id, updates) ==
    IF ~HasId(rendered.tenants, id)
    THEN /\ db' = db
         /\ Returned("updateTenant", id, updates, Fail("Inquilino no encontrado"))
    ELSE LET updated == Merge(FindById(rendered.tenants, id), updates)
             validation == validateTenant(updated)
         IN  /\ db' = updateTenant(db, id, updated)
             /\ Returned("updateTenant", id, updates,
                         IF validation.success THEN Ok
                         ELSE Invalid(validation.errors))

UpdateTenant(id, updates) ==
    IF ~HasId(rendered.tenants, id)
    THEN /\ db' = db
         /\ Returned("updateTenant", id, updates, Fail("Inquilino no encontrado"))
    ELSE LET updated == Merge(FindById(rendered.tenants, id), updates)
             validation == validateTenant(updated)
         IN  IF ~validation.success
             THEN /\ db' = db
                  /\ Returned("updateTenant", id, updates,
                              Invalid(validation.errors))
             ELSE /\ db' = updateTenant(db, id, updated)
                  /\ Returned("updateTenant", id, updates, Ok)

UpdateEmployee(id, updates) ==
    IF ~HasId(rendered.employees, id)
    THEN /\ db' = db
         /\ Returned("updateEmployee", id, updates, Fail("Empleado no encontrado"))
    ELSE LET updated == Merge(FindById(rendered.employees, id), updates)
             validation == validateEmployee(updated)
         IN  IF ~validation.success
             THEN /\ db' = db
                  /\ Returned("updateEmployee", id, updates,
                              Invalid(validation.errors))
             ELSE /\ db' = updateEmployee(db, id, updated)
                  /\ Returned("updateEmployee", id, updates, Ok)

(***************************************************************************)
(* Specification of the validating mutators                                *)
(***************************************************************************)
PropertyUpdates == {[capacity |-> 0], [capacity |-> 2]}

TenantUpdates == {[rent_contribution |-> -1], [employee_id |-> <<"E", "2">>]}

EmployeeUpdates == {[name |-> <<>>], [name |-> <<"C">>]}

\* addTenant arguments for the first property, also with a negative rent
CrudTenantInputs ==
    {[t EXCEPT !.rent_contribution = rent] :
        t \in {u \in TenantInputs : u.property_id = 1}, rent \in {0, -1}}

\* a store persisted by an earlier session, with two employees, the second
\* as an import leaves it (no kana)
CrudDb ==
    [SavedDb EXCEPT
        !.employees =
            <<[id |-> <<"E", "1">>, name |-> <<"A">>, name_kana |-> Str_Ka,
               company |-> <<>>, full_data |-> <<>>],
              [id |-> <<"E", "2">>, name |-> <<"B">>, name_kana |-> <<>>,
               company |-> <<>>, full_data |-> <<>>]>>]

InitCrud ==
    /\ db \in {INITIAL_DB, CrudDb}
    /\ rendered = db
    /\ now = 1
    /\ prev = db
    /\ call = NoCall
    /\ ImportIdle

NextCrud ==
    \/ Tick
    \/ \E property \in PropertyInputs : AddProperty(property) /\ Rerender
    \/ \E tenant \in CrudTenantInputs : AddTenant(tenant) /\ Rerender
    \/ \E id \in 1..MaxClock, updates \in PropertyUpdates :
           UpdateProperty(id, updates) /\ Rerender
    \/ \E id \in 1..MaxClock, updates \in TenantUpdates :
           UpdateTenant(id, updates) /\ Rerender
    \/ \E id \in {<<"E", "1">>, <<"E", "2">>, <<"E", "3">>},
          updates \in EmployeeUpdates :
           UpdateEmployee(id, updates) /\ Rerender

SpecCrud == InitCrud /\ [][NextCrud]_vars

\* the record an update call would store: the record with the call's id in
\* the store before the call, with the call's fields written over it
PostUpdate(s) == Merge(FindById(s, call.id), call.arg)

\* the data of the last call fails its schema, or names no record
ShapeFails ==
    CASE call.op = "addProperty" ->
             PropertyIssues(WithId(call.arg, 1)) # <<>>
      [] call.op = "addTenant" ->
             TenantIssues(WithId(call.arg, 1)) # <<>>
      [] call.op = "updateProperty" ->
             \/ ~HasId(prev.properties, call.id)
             \/ PropertyIssues(PostUpdate(prev.properties)) # <<>>
      [] call.op = "updateTenant" ->
             \/ ~HasId(prev.tenants, call.id)
             \/ TenantIssues(PostUpdate(prev.tenants)) # <<>>
      [] call.op = "updateEmployee" ->
             \/ ~HasId(prev.employees, call.id)
             \/ EmployeeIssues(PostUpdate(prev.employees)) # <<>>
      [] OTHER -> FALSE

\* C20: addProperty, updateProperty, addTenant, updateTenant and
\* updateEmployee report a validation failure (or, for updates, an id that
\* does not exist) as {success: false, ...} and leave the store as it was
\* before the call.
C20_FailuresLeaveStore ==
    /\ ShapeFails => (~call.ret.success /\ db = prev)
    /\ (call.op # "" /\ ~call.ret.success) => db = prev

\* C20 witness: updateTenant with a negative rent on a stored tenant was
\* refused with the schema's issue and the store kept the tenant as it was.
C20_Witness ==
    /\ call.op = "updateTenant"
    /\ call.arg = [rent_contribution |-> -1]
    /\ HasId(prev.tenants, call.id)
    /\ ~call.ret.success
    /\ call.ret.errors # <<>>
    /\ db = prev

(***************************************************************************)
(* Specification of the expiry alerts: contracts that end around the 30    *)
(* and 60 day marks                                                        *)
(***************************************************************************)
AlertEnds ==
    {Absent, <<"x">>, Str_Datetime, DateStr(1, 31), DateStr(2, 1),
     DateStr(3, 2), DateStr(3, 3), DateStr(3, 4)}

AlertStores ==
    {[INITIAL_DB EXCEPT
        !.properties = [i \in DOMAIN ces |-> DashProperty(i, ces[i])]] :
        ces \in SeqsUpTo(AlertEnds, MaxProps)}

InitAlerts ==
    /\ db \in AlertStores
    /\ rendered = db
    /\ prev = db
    /\ call = NoCall
    /\ now = 1
    /\ ImportIdle

SpecAlerts == InitAlerts /\ [][NextDashboard]_vars

Warnings == SelectSeq(call.ret.alerts, LAMBDA a : a.type = "warning")

\* the whole-day distance between a date and today
DayDistance(str, today) ==
    IF NewDate(str).v >= today THEN NewDate(str).v - today
    ELSE today - NewDate(str).v

\* an active property whose contract ends within 60 days of today
EndsSoon(p, today) ==
    /\ isPropertyActive(p, today)
    /\ p.contract_end # Absent /\ p.contract_end # <<>>
    /\ ~NewDate(p.contract_end).nan
    /\ DayDistance(p.contract_end, today) <= 60

\* C21: the Dashboard emits one 'warning' for each active property whose
\* contract_end is at a whole-day distance <= 60 from today (severity 'high'
\* if <= 30 days, otherwise 'medium'), in store order, and no warning for any
\* other property.
C21_ExpiryAlerts ==
    call.op = "Dashboard" =>
        LET soon == SelectSeq(db.properties, LAMBDA p : EndsSoon(p, call.id))
        IN  /\ Len(Warnings) = Len(soon)
            /\ \A k \in DOMAIN soon :
                   /\ Warnings[k].name = soon[k].name
                   /\ Warnings[k].n = DayDistance(soon[k].contract_end, call.id)
                   /\ Warnings[k].severity =
                          IF DayDistance(soon[k].contract_end, call.id) <= 30
                          THEN "high" ELSE "medium"

\* C21 witness: a contract ending in exactly 60 days raised a 'medium'
\* warning while another property raised none.
C21_Witness ==
    /\ call.op = "Dashboard"
    /\ \E k \in DOMAIN Warnings :
           Warnings[k].n = 60 /\ Warnings[k].severity = "medium"
    /\ Len(Warnings) < Len(db.properties)

Dangers == SelectSeq(call.ret.alerts, LAMBDA a : a.type = "danger")

\* the active tenants of the store whose rent_contribution is 0
ZeroRent ==
    {i \in DOMAIN db.tenants :
        db.tenants[i].status = "active" /\ db.tenants[i].rent_contribution = 0}

\* C22: the Dashboard emits exactly one 'danger' alert, stating the number of
\* active tenants with rent_contribution = 0, when that number is >= 1, and
\* none when it is 0; inactive tenants with zero rent are not counted.
C22_ZeroRentAlert ==
    call.op = "Dashboard" =>
        IF ZeroRent # {}
        THEN Len(Dangers) = 1 /\ Dangers[1].n = Cardinality(ZeroRent)
        ELSE Dangers = <<>>

\* C22 witness: two active tenants without rent gave one alert stating 2, and
\* a store whose only tenant without rent is inactive gave none.
C22_Witness ==
    /\ call.op = "Dashboard"
    /\ \/ Cardinality(ZeroRent) = 2 /\ Len(Dangers) = 1 /\ Dangers[1].n = 2
       \/ /\ Dangers = <<>>
          /\ \E i \in DOMAIN db.tenants :
                 db.tenants[i].status = "inactive" /\ db.tenants[i].rent_contribution = 0

\* the integer a numeric cell holds
IntegerCell(c) == c.t = "num"

\* every property row has a non-blank name, every tenant row a non-blank
\* apartment and kana, the apartment being the name of a property row
WellFormedRows ==
    LET pdata == SheetData(wb, PropertyMarkers)
        tdata == SheetData(wb, TenantMarkers)
    IN  /\ \A i \in DOMAIN pdata :
               OwnCellText(pdata[i].apt, pdata[i].bukkenmei) # <<>>
        /\ \A j \in DOMAIN tdata :
               /\ OwnCellText(tdata[j].apt, Undef) # <<>>
               /\ OwnCellText(tdata[j].kana, Undef) # <<>>
               /\ \E i \in DOMAIN pdata :
                      OwnCellText(pdata[i].apt, pdata[i].bukkenmei)
                          = OwnCellText(tdata[j].apt, Undef)

\* C23: for a well-formed rent workbook (non-blank property names, tenant
\* rows with non-blank apartment and kana naming a property row, no property
\* with more tenants than its capacity) the pipeline returns success = true,
\* no errors, one Property candidate per property row and one Tenant
\* candidate per tenant row, carrying the integers of the cells.
C23_WellFormedWorkbook ==
    (RentDone /\ WellFormedRows
        /\ OverCapacity([properties |-> result.data.properties,
                         tenants |-> result.data.tenants]) = {}) =>
        LET pdata == SheetData(wb, PropertyMarkers)
            tdata == SheetData(wb, TenantMarkers)
        IN  /\ result.success
            /\ result.errors = <<>>
            /\ Len(result.data.properties) = Len(pdata)
            /\ Len(result.data.tenants) = Len(tdata)
            /\ \A i \in DOMAIN pdata :
                   /\ (IntegerCell(pdata[i].nyukyoninzu) /\ pdata[i].nyukyoninzu.n >= 1)
                          => result.data.properties[i].capacity = pdata[i].nyukyoninzu.n
                   /\ IntegerCell(pdata[i].yachin)
                          => result.data.properties[i].rent_cost = pdata[i].yachin.n
                   /\ IntegerCell(pdata[i].usnYachin)
                          => result.data.properties[i].rent_price_uns = pdata[i].usnYachin.n
            /\ \A j \in DOMAIN tdata :
                   IntegerCell(tdata[j].yachin)
                       => result.data.tenants[j].rent_contribution = tdata[j].yachin.n

(***************************************************************************)
(* Specification of the rent editor on imported tenants                    *)
(***************************************************************************)
\* rows of a sheet 物件入居 with the columns ｱﾊﾟｰﾄ, 入居人数, カナ, 家賃, 入居
SyncRows ==
    {[RentRow(S(Str_A), N(1), S(Str_Ka)) EXCEPT !.nyukyo = d, !.yachin = m] :
        d \in {Undef, S(Str_Datetime), S(DateStr(4, 1))}, m \in {N(0), N(3)}}

\* the store once the candidates of a one-row import are placed in it
SyncStore(row) ==
    [INITIAL_DB EXCEPT
        !.properties = <<PropertyCandidate(row, 0, 1)>>,
        !.tenants = <<TenantCandidate(row, 0, 1, PropertyCandidate(row, 0, 1))>>]

\* onUpdateTenant(tenant.id, field, parseInt(e.target.value) || 0)
SyncUpdates ==
    {[rent_contribution |-> v] : v \in {0, 4}} \cup {[parking_fee |-> v] : v \in {0, 4}}

InitSync ==
    /\ db \in {SyncStore(row) : row \in SyncRows}
    /\ rendered = db
    /\ now = 1
    /\ prev = db
    /\ call = NoCall
    /\ ImportIdle

NextSync ==
    \/ Tick
    \/ \E id \in 1..MaxClock, updates \in SyncUpdates :
           UpdateTenant(id, updates) /\ Rerender

SpecSync == InitSync /\ [][NextSync]_vars

\* C25: every Tenant candidate of the rent pipeline satisfies the Tenant
\* schema, and once it is in the store an updateTenant call that sets only
\* rent_contribution or parking_fee to a non-negative number succeeds and
\* changes that field.
C25_CandidateUpdatable ==
    /\ \A i \in DOMAIN db.tenants : validateTenant(db.tenants[i]).success
    /\ (call.op = "updateTenant" /\ HasId(prev.tenants, call.id)) =>
           /\ call.ret.success
           /\ \A f \in DOMAIN call.arg :
                  FindById(db.tenants, call.id)[f] = call.arg[f]

(***************************************************************************)
(* Specification of the six property and tenant mutators                   *)
(***************************************************************************)
\* updateProperty(id, { capacity })
CapacityUpdates == {[capacity |-> 1]}

\* updateTenant(id, { property_id }): the tenant moves to another property
MoveUpdates == {[property_id |-> pid] : pid \in 1..MaxClock}

InitStore ==
    /\ db \in {INITIAL_DB, SavedDb}
    /\ rendered = db
    /\ now = 1
    /\ prev = db
    /\ call = NoCall
    /\ ImportIdle

NextStore ==
    \/ Tick
    \/ \E property \in PropertyInputs : AddProperty(property) /\ Rerender
    \/ \E id \in 1..MaxClock, updates \in CapacityUpdates :
           UpdateProperty(id, updates) /\ Rerender
    \/ \E id \in 1..MaxClock : DeleteProperty(id) /\ Rerender
    \/ \E tenant \in TenantInputs : AddTenant(tenant) /\ Rerender
    \/ \E id \in 1..MaxClock, updates \in MoveUpdates :
           UpdateTenant(id, updates) /\ Rerender
    \/ \E id \in 1..MaxClock : DeleteTenant(id) /\ Rerender

SpecStore == InitStore /\ [][NextStore]_vars

ErrorTypes(d) ==
    {ValidateDataIntegrity(d).errors[i].type :
        i \in DOMAIN ValidateDataIntegrity(d).errors}

\* C26: from a store without dangling tenants, after any sequence of
\* addProperty, updateProperty, deleteProperty, addTenant, updateTenant and
\* deleteTenant calls on the up-to-date store, every tenant's property_id
\* names a property of the store: validateDataIntegrity reports no FK_ERROR.
C26_StoreForeignKeys ==
    /\ Dangling(db) = {}
    /\ "FK_ERROR" \notin ErrorTypes(db)

\* C27: from a store without an over-full property, after any sequence of
\* successful addTenant, updateTenant, updateProperty and deleteTenant calls
\* no property has more active tenants than its capacity:
\* validateDataIntegrity reports no CAPACITY_ERROR.
C27_StoreCapacity ==
    /\ OverCapacity(db) = {}
    /\ "CAPACITY_ERROR" \notin ErrorTypes(db)

(***************************************************************************)
(* Specification of updates issued before the hook re-renders              *)
(***************************************************************************)
\* updateProperty(id, { capacity }) and updateProperty(id, { rent_cost })
FieldUpdates == {[capacity |-> 2], [rent_cost |-> 5]}

\* the hook re-renders: useCallback builds the callbacks anew over the
\* committed store ([db.properties], [db.tenants])
Render ==
    /\ rendered # db
    /\ rendered' = db
    /\ UNCHANGED <<db, prev, call, now, importVars>>

InitStale ==
    /\ db = SavedDb
    /\ rendered = db
    /\ now = 1
    /\ prev = db
    /\ call = NoCall
    /\ ImportIdle

\* a callback called again before the re-render still holds the old snapshot
NextStale ==
    \/ Render
    \/ \E id \in 1..MaxClock, updates \in FieldUpdates :
           UpdateProperty(id, updates) /\ UNCHANGED rendered
    \/ \E id \in 1..MaxClock, updates \in SyncUpdates :
           UpdateTenant(id, updates) /\ UNCHANGED rendered

SpecStale == InitStale /\ [][NextStale]_vars

\* the fields of the record with the call's id that an earlier call changed
\* since the snapshot was rendered, other than the fields this call sets
ChangedBefore(list) ==
    {g \in DOMAIN FindById(prev[list], call.id) \ DOMAIN call.arg :
        FindById(prev[list], call.id)[g] # FindById(rendered[list], call.id)[g]}

\* the last call succeeded on a record of the list that is in the snapshot
UpdatedIn(op, list) ==
    /\ call.op = op
    /\ call.ret.success
    /\ HasId(rendered[list], call.id)
    /\ HasId(prev[list], call.id)

\* C28: when two successful updateTenant (or updateProperty) calls on the
\* same record, changing different fields, are issued against the same
\* rendered snapshot, the stored record reflects both changes.
C28_NoLostUpdate ==
    /\ UpdatedIn("updateTenant", "tenants") =>
           \A g \in ChangedBefore("tenants") :
               FindById(db.tenants, call.id)[g] = FindById(prev.tenants, call.id)[g]
    /\ UpdatedIn("updateProperty", "properties") =>
           \A g \in ChangedBefore("properties") :
               FindById(db.properties, call.id)[g]
                   = FindById(prev.properties, call.id)[g]

(***************************************************************************)
(* Claims about the guards of addTenant and about ids                      *)
(***************************************************************************)
ActiveWith(list, employee_id) ==
    {i \in DOMAIN list :
        list[i].employee_id = employee_id /\ list[i].status = "active"}

\* C29: addTenant returns success = false and leaves the store unchanged when
\* the tenant's property_id matches no property or an active tenant with the
\* same employee_id exists; so after any sequence of addTenant calls on the
\* up-to-date store no two active tenants share an employee_id.
C29_AddTenantGuards ==
    /\ (/\ call.op = "addTenant"
        /\ \/ ~HasProperty(prev.properties, call.arg.property_id)
           \/ ActiveWith(prev.tenants, call.arg.employee_id) # {}) =>
           (~call.ret.success /\ db = prev)
    /\ \A i \in DOMAIN db.tenants :
           db.tenants[i].status = "active" =>
               ActiveWith(db.tenants, db.tenants[i].employee_id) = {i}

\* C29 witness: a store of two active tenants with different employee ids
\* refused a third tenant carrying the employee_id of one of them.
C29_Witness ==
    /\ call.op = "addTenant"
    /\ call.ret.error = "ID empleado ya asignado"
    /\ HasProperty(prev.properties, call.arg.property_id)
    /\ Len(db.tenants) = 2
    /\ db.tenants[1].employee_id # db.tenants[2].employee_id

====
